---- MODULE Spec2Model ----
(***************************************************************************)
(* A model of mlky, a hierarchical configuration library: the Null         *)
(* sentinel and its runaway-misuse breaker, section patching, patch-chain  *)
(* expansion, schema definitions, magic interpolation, dtype casting and   *)
(* validation.  Each component has its own specification over the shared   *)
(* variables; the variables of the other components stay idle.             *)
(***************************************************************************)
EXTENDS Integers, Sequences, FiniteSets, TLC

\* ------------------------------------------------------------------------
\* Python values.  A scalar is a record tagged with its Python type; text
\* payloads are sequences of one-character strings.
\* ------------------------------------------------------------------------
NullV == [t |-> "Null"]
NoneV == [t |-> "None"]
BoolV(b) == [t |-> "bool", v |-> b]
IntV(i) == [t |-> "int", v |-> i]
StrV(s) == [t |-> "str", v |-> s]
MethodV(name) == [t |-> "method", v |-> name]
RaisedV(what) == [t |-> "raised", v |-> what]

\* ------------------------------------------------------------------------
\* Bounds
\* ------------------------------------------------------------------------
\* clock ticks per second of wall time
TicksPerSecond == 2
\* misuse events the environment issues within one tick
MaxPerTick == 2
\* sections in one patch chain, the base included
MaxSections == 3
\* section names in one patch expression
MaxChain == 2
\* nested parsePatch calls before the frame limit of the interpreter is hit
MaxDepth == 4
\* applications of the same definitions to one tree
MaxApply == 3
\* Validations of one tree.
MaxValidate == 2
\* Keys deleted from one section.
MaxDelete == 1
\* Registrations that replace a function.
MaxRegister == 1
\* Global initialisations of the Config.
MaxInits == 2
\* Local instances of the Config.
MaxLocals == 2
\* Edits made on a tree and its copy.
MaxEdits == 2
\* Longest list under a key.
MaxList == 2
\* Resets and assignments on a config of references.
MaxResets == 2
\* Overrides made on one tree.
MaxOverrides == 2
\* Assignments and patches on one tree.
MaxTreeOps == 2
\* Resets of one configuration.
MaxReinit == 2
\* Assignments to the keys of one node.
MaxSets == 2

\* ------------------------------------------------------------------------
\* Constants of the code
\* ------------------------------------------------------------------------
\* null.py: `if NullErrors.err >= 1000: raise RuntimeError`
ErrLimit == 1000

VARIABLES
    err,        \* NullErrors.err
    elapse,     \* ticks since NullErrors.now, saturating at one second
    flags,      \* NullType._warn and NullType._debug
    nOp,        \* the last operation performed on the sentinel
    nRes,       \* what that operation returned (or raised)
    nChanged,   \* that operation changed an attribute of the sentinel
    nWin,       \* misuse events per tick over the last second, newest first
    nMaxWin,    \* most misuse events seen in any closed one-second span
    nRaised,    \* the runaway RuntimeError has been raised
    pGen,       \* the class of the tree being patched: Sect or DictSect
    pSects,     \* the sections patched so far, the base first
    pTree,      \* the tree the patches have produced
    cfgInput,   \* DictSect(_data, _patch): the arguments as given
    cfgData,    \* the _data dict of every top-level section: key -> cell
    cfgCells,   \* the scalar objects (Var) the sections hold: cell -> value
    cfgBase,    \* the section whose _data dict the root took over
    cfgOrder,   \* what parsePatch returned to _subinit
    cfgPc,      \* "new" before the constructor ran, then "built" or "failed"
    dGen,       \* the class of the tree the definitions go to
    dDefs,      \* the definitions given for the root
    dData,      \* the tree as built from the input data alone
    dTree,      \* the tree now
    dOnce,      \* the tree as the first application left it
    dCount,     \* how often the definitions have been applied
    dRaised,    \* an application ended in AttributeError
    mIn,        \* the config, the string and the resolver of a read
    mRes,       \* what the read returned
    mPc,        \* "new" before the read, then "read"
    bIn,        \* the input, dtype and default of a scalar and its class
    bVal,       \* what the input resolved to
    bOut,       \* the scalar as serialised
    bMiss,      \* the missing flag of the scalar
    bPc,        \* "new", "resolved", "dumped"
    vIn,        \* the class of the validated section and its group check
    vKids,      \* the children of the section: key -> child
    vErrs,      \* what the last call on the section returned
    vCount,     \* how often the section has been validated
    gFuncs,     \* Funcs: the registered functions by name
    gChecks,    \* the checks the defs declare for each scalar
    gCount,     \* how many functions were registered again
    gRes,       \* what the last call or validation returned or raised
    kGiven,     \* the data of the most recent global initialisation
    kClass,     \* the Section the class attributes hold, as read
    kLocals,    \* the local instances: their data and what they read
    kCount,     \* global initialisations so far
    kRaised,    \* the last instantiation or assignment raised
    hHeap,      \* the Var and Sect instances alive, by identity
    hOrig,      \* the tree copied
    hCopy,      \* its copy, 0 before it is made
    hLast,      \* the tree the last edit went to
    hCount,     \* edits made on the two trees
    lIn,        \* the class of the target, the two lists, the kind of patch
    lRes,       \* the list read under the key after the patch, or what was raised
    lPc,        \* "new" before the patch, then "patched"
    rIn,        \* the input data of the config and whether replace calls resets
    rVars,      \* value and original of every scalar of the config
    rCount,     \* resets and assignments so far
    oTree,      \* the tree the overrides are made on
    oLast,      \* the path and value of the last override and the tree before it
    oRaised,    \* what the last override raised, "none" for nothing
    oCount,     \* overrides made
    eReport,    \* the report of a validation
    eReduced,   \* the report reduced
    eTwice,     \* the reduced report reduced again
    eBool,      \* what the validation returns as a boolean
    ePc,        \* "new", "reduced", "twice", "bool"
    tHeap,      \* the node objects alive, by identity
    tRoot,      \* the root of the tree
    tCount,     \* assignments and patches made on the tree
    iHeap,      \* the dict objects alive, by identity
    iInput,     \* the dict given as input
    iOrig,      \* the input as it was given
    iData,      \* the dict inherit_ returned last
    iOrder,     \* the order of the last inheritance
    iCount,     \* resets made
    iPc,        \* input, built or raised
    yMap,       \* the map the node was constructed with
    yNode,      \* the dict node
    yOp,        \* the last operation on the node
    yCount      \* assignments made

counterVars == <<err, elapse>>
nullVars == <<flags, nOp, nRes, nChanged>>
clockVars == <<nWin, nMaxWin, nRaised>>

patchVars == <<pGen, pSects, pTree>>

cfgVars == <<cfgInput, cfgData, cfgCells, cfgBase, cfgOrder, cfgPc>>

defsVars == <<dGen, dDefs, dData, dTree, dOnce, dCount, dRaised>>

magicVars == <<mIn, mRes, mPc>>

slashVars == <<bIn, bVal, bOut, bMiss, bPc>>

validateVars == <<vIn, vKids, vErrs, vCount>>

registryVars == <<gFuncs, gChecks, gCount, gRes>>

configVars == <<kGiven, kClass, kLocals, kCount, kRaised>>

copyVars == <<hHeap, hOrig, hCopy, hLast, hCount>>

listPatchVars == <<lIn, lRes, lPc>>

recursiveVars == <<rIn, rVars, rCount>>

overrideVars == <<oTree, oLast, oRaised, oCount>>

reduceVars == <<eReport, eReduced, eTwice, eBool, ePc>>

namesVars == <<tHeap, tRoot, tCount>>

inheritVars == <<iHeap, iInput, iOrig, iData, iOrder, iCount, iPc>>

keysVars == <<yMap, yNode, yOp, yCount>>

vars ==
    <<counterVars, nullVars, clockVars, patchVars, cfgVars, defsVars,
    magicVars, slashVars, validateVars, registryVars, configVars, copyVars,
    listPatchVars, recursiveVars, overrideVars, reduceVars, namesVars,
    inheritVars, keysVars>>

\* What the operations of one part leave alone: the other parts.
baseVars == <<counterVars, nullVars, clockVars>>
exceptNull ==
    <<patchVars, cfgVars, defsVars, magicVars, slashVars, validateVars,
    registryVars, configVars, copyVars, listPatchVars, recursiveVars,
    overrideVars, reduceVars, namesVars, inheritVars, keysVars>>
exceptPatch ==
    <<baseVars, cfgVars, defsVars, magicVars, slashVars, validateVars,
    registryVars, configVars, copyVars, listPatchVars, recursiveVars,
    overrideVars, reduceVars, namesVars, inheritVars, keysVars>>
exceptCfg ==
    <<baseVars, patchVars, defsVars, magicVars, slashVars, validateVars,
    registryVars, configVars, copyVars, listPatchVars, recursiveVars,
    overrideVars, reduceVars, namesVars, inheritVars, keysVars>>
exceptDefs ==
    <<baseVars, patchVars, cfgVars, magicVars, slashVars, validateVars,
    registryVars, configVars, copyVars, listPatchVars, recursiveVars,
    overrideVars, reduceVars, namesVars, inheritVars, keysVars>>
exceptMagics ==
    <<baseVars, patchVars, cfgVars, defsVars, slashVars, validateVars,
    registryVars, configVars, copyVars, listPatchVars, recursiveVars,
    overrideVars, reduceVars, namesVars, inheritVars, keysVars>>
exceptSlash ==
    <<baseVars, patchVars, cfgVars, defsVars, magicVars, validateVars,
    registryVars, configVars, copyVars, listPatchVars, recursiveVars,
    overrideVars, reduceVars, namesVars, inheritVars, keysVars>>
exceptValidate ==
    <<baseVars, patchVars, cfgVars, defsVars, magicVars, slashVars,
    registryVars, configVars, copyVars, listPatchVars, recursiveVars,
    overrideVars, reduceVars, namesVars, inheritVars, keysVars>>
exceptRegistry ==
    <<baseVars, patchVars, cfgVars, defsVars, magicVars, slashVars,
    validateVars, configVars, copyVars, listPatchVars, recursiveVars,
    overrideVars, reduceVars, namesVars, inheritVars, keysVars>>
exceptConfig ==
    <<baseVars, patchVars, cfgVars, defsVars, magicVars, slashVars,
    validateVars, registryVars, copyVars, listPatchVars, recursiveVars,
    overrideVars, reduceVars, namesVars, inheritVars, keysVars>>
exceptCopy ==
    <<baseVars, patchVars, cfgVars, defsVars, magicVars, slashVars,
    validateVars, registryVars, configVars, listPatchVars, recursiveVars,
    overrideVars, reduceVars, namesVars, inheritVars, keysVars>>
exceptListPatch ==
    <<baseVars, patchVars, cfgVars, defsVars, magicVars, slashVars,
    validateVars, registryVars, configVars, copyVars, recursiveVars,
    overrideVars, reduceVars, namesVars, inheritVars, keysVars>>
exceptRecursive ==
    <<baseVars, patchVars, cfgVars, defsVars, magicVars, slashVars,
    validateVars, registryVars, configVars, copyVars, listPatchVars,
    overrideVars, reduceVars, namesVars, inheritVars, keysVars>>
exceptOverride ==
    <<baseVars, patchVars, cfgVars, defsVars, magicVars, slashVars,
    validateVars, registryVars, configVars, copyVars, listPatchVars,
    recursiveVars, reduceVars, namesVars, inheritVars, keysVars>>
exceptReduce ==
    <<baseVars, patchVars, cfgVars, defsVars, magicVars, slashVars,
    validateVars, registryVars, configVars, copyVars, listPatchVars,
    recursiveVars, overrideVars, namesVars, inheritVars, keysVars>>
exceptNames ==
    <<baseVars, patchVars, cfgVars, defsVars, magicVars, slashVars,
    validateVars, registryVars, configVars, copyVars, listPatchVars,
    recursiveVars, overrideVars, reduceVars, inheritVars, keysVars>>
exceptInherit ==
    <<baseVars, patchVars, cfgVars, defsVars, magicVars, slashVars,
    validateVars, registryVars, configVars, copyVars, listPatchVars,
    recursiveVars, overrideVars, reduceVars, namesVars, keysVars>>
exceptKeys ==
    <<baseVars, patchVars, cfgVars, defsVars, magicVars, slashVars,
    validateVars, registryVars, configVars, copyVars, listPatchVars,
    recursiveVars, overrideVars, reduceVars, namesVars, inheritVars>>

\* ------------------------------------------------------------------------
\* null.py
\* ------------------------------------------------------------------------

\* Names defined by NullType itself: normal lookup finds them, so that
\* NullType.__getattr__ is never asked for them.
NullTypeMethods == {"get", "keys", "items"}
NullTypeFlags == {"_warn", "_debug"}

\* Attribute names and keys the programs read or assign on the sentinel.
AttrNames == {"test", "recursive", "get", "_warn"}

\* Values the sentinel is compared with and that are assigned to it.
Others == {NullV, NoneV, BoolV(FALSE), BoolV(TRUE), IntV(0), StrV(<< >>)}

\* NullErrors(msg, warn): the counter after one more misuse event that comes
\* `gap` ticks after the previous one.
NullErrors(e, gap) ==
    IF gap < TicksPerSecond THEN e + 1 ELSE 0

\* The end of NullErrors for its caller: the exception, or the caller
\* goes on to return `ret`.
NullErrorsOutcome(e, ret) ==
    IF e >= ErrLimit THEN RaisedV("RuntimeError") ELSE ret

\* NullType.__eq__
NullEq(other) == other.t \in {"None", "Null"}

\* NullGetattr with the sentinel lost for the name "recursive".
NullGetattr_Mutant(key) ==
    IF key \in NullTypeMethods THEN MethodV(key)
    ELSE IF key \in NullTypeFlags THEN flags[key]
    ELSE IF key = "recursive" THEN NoneV
    ELSE NullV

\* Null.key: an attribute of the class, or NullType.__getattr__.
NullGetattr(key) ==
    IF key \in NullTypeMethods THEN MethodV(key)
    ELSE IF key \in NullTypeFlags THEN flags[key]
    ELSE NullV

\* NullType.__setattr__: the flags after the assignment.
NullSetFlags(key, value) ==
    IF key \in NullTypeFlags THEN [flags EXCEPT ![key] = value] ELSE flags

Sum(s) ==
    LET RECURSIVE S(_)
        S(i) == IF i > Len(s) THEN 0 ELSE s[i] + S(i + 1)
    IN S(1)

Max(a, b) == IF a >= b THEN a ELSE b

\* A call, an attribute assignment or an item assignment: a misuse event.
Misuse(kind, key, ret) ==
    /\ err <= ErrLimit
    /\ err' = NullErrors(err, elapse)
    /\ elapse' = 0
    /\ nOp' = [kind |-> kind, key |-> key]
    /\ nRes' = NullErrorsOutcome(err', ret)
    /\ nChanged' = FALSE
    /\ UNCHANGED <<flags, clockVars, exceptNull>>

\* An operation that never reaches NullErrors.
Quiet(kind, key, ret) ==
    /\ nOp' = [kind |-> kind, key |-> key]
    /\ nRes' = ret
    /\ nChanged' = FALSE
    /\ UNCHANGED <<counterVars, flags, clockVars, exceptNull>>

\* Null(...)
NullCall == Misuse("call", NoneV, NullV)

\* Null.key = value, Null[key] = value
NullSetattr ==
    \E key \in AttrNames, value \in {BoolV(FALSE), BoolV(TRUE)} :
        IF key \in NullTypeFlags
        THEN /\ nOp' = [kind |-> "setattr", key |-> StrV(key)]
             /\ nRes' = NoneV
             /\ flags' = NullSetFlags(key, value)
             /\ nChanged' = (flags' # flags)
             /\ UNCHANGED <<counterVars, clockVars, exceptNull>>
        ELSE Misuse("setattr", StrV(key), NoneV)

\* Null.key
NullGetattrOp ==
    \E key \in AttrNames : Quiet("getattr", StrV(key), NullGetattr(key))

\* Null[key]
NullGetitem == \E key \in AttrNames : Quiet("getitem", StrV(key), NullV)

\* bool(Null)
NullBool == Quiet("bool", NoneV, BoolV(FALSE))

\* Null == other
NullEqOp == \E other \in Others : Quiet("eq", other, BoolV(NullEq(other)))

\* Wall time advances by one tick.
Tick ==
    /\ elapse' = IF elapse < TicksPerSecond THEN elapse + 1 ELSE elapse
    /\ nWin' = <<0>> \o SubSeq(nWin, 1, Len(nWin) - 1)
    /\ UNCHANGED <<err, nullVars, nMaxWin, nRaised, exceptNull>>

\* NullErrors(msg, warn) called by any of the misuse events, watched over
\* the last second.
NullErrorsEvent ==
    /\ err <= ErrLimit
    /\ nWin[1] < MaxPerTick
    /\ err' = NullErrors(err, elapse)
    /\ elapse' = 0
    /\ nWin' = [nWin EXCEPT ![1] = @ + 1]
    /\ nMaxWin' = Max(nMaxWin, Sum(nWin'))
    /\ nRaised' = (nRaised \/ NullErrorsOutcome(err', NoneV) # NoneV)
    /\ UNCHANGED <<nullVars, exceptNull>>

NullInit ==
    /\ err = 0
    /\ elapse = 0
    /\ flags = [k \in NullTypeFlags |-> BoolV(k = "_warn")]
    /\ nOp = [kind |-> "import", key |-> NoneV]
    /\ nRes = NoneV
    /\ nChanged = FALSE
    /\ nWin = [i \in 1..(TicksPerSecond + 1) |-> 0]
    /\ nMaxWin = 0
    /\ nRaised = FALSE

\* ------------------------------------------------------------------------
\* Trees: sect.py (Sect, Var) and dict.py (DictSect)
\* ------------------------------------------------------------------------

\* A scalar node (Var) and a dict node (Sect, DictSect) with its children.
VarN(value) == [t |-> "var", value |-> value]
DictN(kids) == [t |-> "dict", kids |-> kids]
Missing == [t |-> "absent"]

\* Top-level keys and keys of sub-sections; "items" also names a method of
\* the section classes.
RootKeys == {"a", "items"}
SubKeys == {"x"}
Scalars == {IntV(1), IntV(2)}

\* Names that hasattr(type(self), key) finds on DictSect.
DictSectAttrs ==
    {"items", "keys", "values", "get", "applyPatch", "toDict",
     "_data", "_key", "_parent", "_defs", "_missing", "_dtype", "_patch"}

\* The dict nodes over a key set whose children come from `nodes`.
DictsOver(keys, nodes) ==
    UNION {{DictN(f) : f \in [ks -> nodes]} : ks \in SUBSET keys}

SubSections == DictsOver(SubKeys, {VarN(v) : v \in Scalars})
Sections == DictsOver(RootKeys, {VarN(v) : v \in Scalars} \cup SubSections)

Paths == {<<k>> : k \in RootKeys} \cup (RootKeys \X SubKeys)

\* node[p1][p2]...: the node at a path, Missing when there is none.
RECURSIVE Lookup(_, _)
Lookup(node, path) ==
    IF path = << >> THEN node
    ELSE IF node.t # "dict" THEN Missing
    ELSE IF Head(path) \notin DOMAIN node.kids THEN Missing
    ELSE Lookup(node.kids[Head(path)], Tail(path))

IsLeaf(node, path) == Lookup(node, path).t = "var"

\* Sect._patch(other): `other` over `self`, key by key.
RECURSIVE SectPatch(_, _)
SectPatch(self, other) ==
    DictN([key \in DOMAIN self.kids \cup DOMAIN other.kids |->
        IF key \notin DOMAIN other.kids THEN self.kids[key]
        ELSE LET item == other.kids[key]
                 data == IF key \in DOMAIN self.kids
                         THEN self.kids[key] ELSE NoneV
             IN IF item.t = "dict" /\ data.t = "dict"
                THEN SectPatch(data, item)
                ELSE item])

\* BaseSect.__setattr__(key, value) on a dict node, `value` a node.
DictSetattr(self, key, value) ==
    IF key \in DictSectAttrs THEN self
    ELSE LET this == IF key \in DOMAIN self.kids
                     THEN self.kids[key] ELSE NullV
         IN IF value.t = "var" /\ this.t = "var"
            THEN DictN([self.kids EXCEPT ![key].value = value.value])
            ELSE DictN([k \in DOMAIN self.kids \cup {key} |->
                        IF k = key THEN value ELSE self.kids[k]])

\* DictSect.applyPatch(patch): the keys of the patch one after the other.
RECURSIVE DictApplyPatch(_, _)
RECURSIVE DictApplyKeys(_, _, _)
DictApplyKeys(self, patch, keys) ==
    IF keys = {} THEN self
    ELSE LET key == CHOOSE k \in keys : TRUE
             other == patch.kids[key]
             next ==
                IF key \in DOMAIN self.kids
                THEN LET this == self.kids[key]
                     IN IF this.t = "dict" /\ other.t = "dict"
                        THEN DictN([self.kids EXCEPT
                                ![key] = DictApplyPatch(this, other)])
                        ELSE DictSetattr(self, key, other)
                ELSE DictSetattr(self, key, other)
         IN DictApplyKeys(next, patch, keys \ {key})

DictApplyPatch(self, patch) ==
    DictApplyKeys(self, patch, DOMAIN patch.kids)

\* tree | section, with the `|` of Sect
PatchSect ==
    /\ pGen = "Sect"
    /\ Len(pSects) < MaxSections
    /\ \E other \in Sections :
        /\ pTree' = SectPatch(pTree, other)
        /\ pSects' = Append(pSects, other)
    /\ UNCHANGED <<pGen, exceptPatch>>

\* tree.applyPatch(section) of DictSect
PatchDictSect ==
    /\ pGen = "DictSect"
    /\ Len(pSects) < MaxSections
    /\ \E patch \in Sections :
        /\ pTree' = DictApplyPatch(pTree, patch)
        /\ pSects' = Append(pSects, patch)
    /\ UNCHANGED <<pGen, exceptPatch>>

\* The base section, built from its data by either class.
PatchInit ==
    /\ pGen \in {"Sect", "DictSect"}
    /\ pTree \in Sections
    /\ pSects = <<pTree>>

PatchIdle ==
    /\ pGen = "Sect"
    /\ pTree = DictN(<< >>)
    /\ pSects = <<pTree>>

\* ------------------------------------------------------------------------
\* Patch chains: base.py (parsePatch) and dict.py (DictSect._subinit)
\* ------------------------------------------------------------------------

ListV(items) == [t |-> "list", v |-> items]
PatchKey == "mlky.patch"

\* The top-level sections of the input; "d" declares no chain of its own.
SectionNames == {"d", "a", "b"}
Declaring == {"a", "b"}

\* A key as the text that names it in a patch expression, and back.
Chars(name) == <<name>>
KeyOf(chars) == IF Len(chars) = 1 THEN chars[1] ELSE "?"

\* str.join: the names with "<-" between them.
RECURSIVE Join(_)
Join(names) ==
    IF Len(names) = 0 THEN << >>
    ELSE IF Len(names) = 1 THEN Chars(names[1])
    ELSE Chars(names[1]) \o <<"<", "-">> \o Join(Tail(names))

\* str.split('<-')
Split(str) ==
    LET RECURSIVE F(_, _, _)
        F(i, cur, acc) ==
            IF i > Len(str) THEN Append(acc, cur)
            ELSE IF i < Len(str) /\ str[i] = "<" /\ str[i + 1] = "-"
                 THEN F(i + 2, << >>, Append(acc, cur))
                 ELSE F(i + 1, Append(cur, str[i]), acc)
    IN F(1, << >>, << >>)

NameSeqs == UNION {[1..n -> SectionNames] : n \in 1..MaxChain}

\* Patch expressions: "a<-b" strings, and lists of names.
PatchStrings == {StrV(Join(names)) : names \in NameSeqs}
PatchLists == {ListV(<<name>>) : name \in SectionNames}

\* What a section may hold under mlky.patch; Missing: the key is not there.
Declarations == {Missing, StrV(<< >>)} \cup PatchStrings \cup PatchLists

\* bool(value) of a child read with get()
Truthy(value) ==
    CASE value.t \in {"absent", "Null", "None"} -> FALSE
      [] value.t \in {"str", "list", "ListSect"} -> Len(value.v) > 0
      [] OTHER -> TRUE

\* sect.get(key) on a section of `data`
SectGet(data, cells, section, key) ==
    IF key \in DOMAIN data[section] THEN cells[data[section][key]] ELSE NullV

\* del sect[key]
SectDel(data, section, key) ==
    [data EXCEPT ![section] =
        [k \in (DOMAIN data[section]) \ {key} |-> data[section][k]]]

\* sect = self[section]; patches = sect.get('mlky.patch') with the frame
\* limit reached, had the RecursionError left __getattr__.
GetPatches_Mutant(data, cells, section, fuel) ==
    IF fuel = 0 THEN RaisedV("RecursionError")
    ELSE SectGet(data, cells, section, PatchKey)

\* sect = self[section]; patches = sect.get('mlky.patch') with `fuel`
\* nested calls left. The deepest call of self[section] is the test of the
\* item's type inside the try of __getattr__: where the frame limit is
\* reached the RecursionError is caught by its bare except, which answers
\* Null, and Null.get() is Null.
GetPatches(data, cells, section, fuel) ==
    IF fuel = 0 THEN NullV
    ELSE SectGet(data, cells, section, PatchKey)

\* parsePatch(patch) with `fuel` nested calls left.  It returns the order
\* and the sections, from which it deletes the expanded mlky.patch keys.
RECURSIVE ParsePatch(_, _, _, _)
RECURSIVE ParseSections(_, _, _, _, _, _)
ParseSections(data, cells, names, i, patchList, fuel) ==
    IF i > Len(names) THEN [list |-> ListV(patchList), data |-> data]
    ELSE LET section == KeyOf(names[i]) IN
        IF section \notin DOMAIN data
        THEN ParseSections(data, cells, names, i + 1, patchList, fuel)
        ELSE LET patches == GetPatches(data, cells, section, fuel) IN
            IF patches.t = "raised"
            THEN [list |-> patches, data |-> data]
            ELSE IF ~Truthy(patches)
            THEN ParseSections(data, cells, names, i + 1,
                               Append(patchList, section), fuel)
            ELSE LET sub == ParsePatch(data, cells, patches, fuel - 1) IN
                IF sub.list.t = "raised" THEN sub
                ELSE ParseSections(SectDel(sub.data, section, PatchKey),
                        cells, names, i + 1,
                        Append(patchList \o sub.list.v, section), fuel)

ParsePatch(data, cells, patch, fuel) ==
    IF patch.t = "None" THEN [list |-> NoneV, data |-> data]
    ELSE IF patch.t = "str"
         THEN ParseSections(data, cells, Split(patch.v), 1, << >>, fuel)
    ELSE IF patch.t = "list"
         THEN ParseSections(data, cells,
                [i \in 1..Len(patch.v) |-> Chars(patch.v[i])], 1, << >>, fuel)
    ELSE [list |-> ListV(<< >>), data |-> data]

\* Switch(key, value): a list becomes a ListSect, which is no `list`.
MakeObj(value) ==
    IF value.t = "list" THEN [t |-> "ListSect", v |-> value.v] ELSE value

\* self.applyPatch(data[key]) on the root whose _data is that of `base`:
\* an existing scalar takes the patch's value, a new key takes its object.
RECURSIVE ApplyKeys(_, _, _, _, _)
ApplyKeys(data, cells, base, section, keys) ==
    IF keys = {} THEN [data |-> data, cells |-> cells]
    ELSE LET key == CHOOSE k \in keys : TRUE
             other == data[section][key]
         IN IF key \in DOMAIN data[base]
            THEN ApplyKeys(data,
                    [cells EXCEPT ![data[base][key]] = cells[other]],
                    base, section, keys \ {key})
            ELSE ApplyKeys(
                    [data EXCEPT ![base] =
                        [k \in DOMAIN data[base] \cup {key} |->
                            IF k = key THEN other ELSE data[base][k]]],
                    cells, base, section, keys \ {key})

RECURSIVE ApplyOrder(_, _, _, _, _)
ApplyOrder(data, cells, base, order, i) ==
    IF i > Len(order) THEN [data |-> data, cells |-> cells]
    ELSE LET next == ApplyKeys(data, cells, base, order[i],
                               DOMAIN data[order[i]])
         IN ApplyOrder(next.data, next.cells, base, order, i + 1)

\* DictSect.__init__(_data, _patch=...)
Build ==
    /\ cfgPc = "new"
    /\ LET parsed == ParsePatch(cfgData, cfgCells, cfgInput.patch, MaxDepth)
       IN /\ cfgOrder' = parsed.list
          /\ cfgPc' = IF parsed.list.t = "raised" THEN "failed" ELSE "built"
          /\ IF parsed.list.t = "list" /\ Len(parsed.list.v) > 0
             THEN LET merged == ApplyOrder(parsed.data, cfgCells,
                                    parsed.list.v[1], parsed.list.v, 2)
                  IN /\ cfgBase' = parsed.list.v[1]
                     /\ cfgData' = merged.data
                     /\ cfgCells' = merged.cells
             ELSE /\ cfgBase' = "None"
                  /\ cfgData' = parsed.data
                  /\ cfgCells' = cfgCells
    /\ UNCHANGED <<cfgInput, exceptCfg>>

\* The children of the root after the constructor, when it took a base.
Merged ==
    [key \in DOMAIN cfgData[cfgBase] |-> cfgCells[cfgData[cfgBase][key]]]

\* The input: every section holds a field x of its own and, if it
\* declares one, its chain.
SectionKeys(decl, name) ==
    IF decl[name] = Missing THEN {"x"} ELSE {"x", PatchKey}

FieldOf(name) == IF name = "d" THEN IntV(0)
                 ELSE IF name = "a" THEN IntV(1) ELSE IntV(2)

CfgInit ==
    \E decl \in [SectionNames -> Declarations],
       patch \in {NoneV} \cup PatchStrings \cup PatchLists :
        /\ \A name \in SectionNames \ Declaring : decl[name] = Missing
        /\ cfgInput = [decl |-> decl, patch |-> patch]
        /\ cfgData = [name \in SectionNames |->
                        [key \in SectionKeys(decl, name) |-> <<name, key>>]]
        /\ cfgCells = [cell \in SectionNames \X {"x", PatchKey} |->
                        IF cell[2] = "x" THEN FieldOf(cell[1])
                        ELSE MakeObj(decl[cell[1]])]
        /\ cfgBase = "None"
        /\ cfgOrder = NoneV
        /\ cfgPc = "new"

CfgIdle ==
    /\ cfgInput = [decl |-> [name \in SectionNames |-> Missing],
                   patch |-> NoneV]
    /\ cfgData = [name \in SectionNames |-> [key \in {"x"} |-> <<name, key>>]]
    /\ cfgCells = [cell \in SectionNames \X {"x", PatchKey} |->
                    IF cell[2] = "x" THEN FieldOf(cell[1]) ELSE Missing]
    /\ cfgBase = "None"
    /\ cfgOrder = NoneV
    /\ cfgPc = "new"

\* ------------------------------------------------------------------------
\* Definitions: sect.py (applyDefinition, _setdefs), var.py
\* (applyDefinition), base.py (_buildDefs) and dict.py (_applyDefs)
\* ------------------------------------------------------------------------

\* A defs dict: its dtype and default ("none", Null: not given), the
\* repeat of a list, its ".key" entries in order, its match cases, and the
\* case/key/value keys a matched case has merged into it.
Defs(dtype, default, repeat, sub, match) ==
    [dtype |-> dtype, default |-> default, repeat |-> repeat,
     sub |-> sub, match |-> match, matched |-> << >>]
NoDefs == Defs("none", NullV, 0, << >>, << >>)
Entry(key, defs) == [key |-> key, defs |-> defs]
Case(dtype, key, value, sub) ==
    [case |-> dtype, key |-> key, value |-> value, sub |-> sub]

\* defs.get('.key', {})
SubDefs(defs, key) ==
    LET hits == {i \in 1..Len(defs.sub) : defs.sub[i].key = key}
    IN IF hits = {} THEN NoDefs ELSE defs.sub[CHOOSE i \in hits : TRUE].defs

\* Nodes that carry what the definitions attach to them.
SVar(value, missing) ==
    [t |-> "var", value |-> value, missing |-> missing, defs |-> NoDefs]
SDict(kids, missing) ==
    [t |-> "dict", kids |-> kids, missing |-> missing, defs |-> NoDefs,
     type |-> "Dict"]
SList(items, missing) ==
    [t |-> "list", items |-> items, missing |-> missing, defs |-> NoDefs]

WithKid(self, key, kid) ==
    [self EXCEPT !.kids = [k \in DOMAIN self.kids \cup {key} |->
                            IF k = key THEN kid ELSE self.kids[k]]]

\* Reading a scalar: its value, or the default of its definition while the
\* value is Null (Sect.__getattr__ with default=True; Var.getValue).
GetValue(var) == IF var.value = NullV THEN var.defs.default ELSE var.value

\* Var.applyDefinition: setattr for every key of the defs.
VarApplyDefinition(var, defs) ==
    [var EXCEPT !.defs =
        [@ EXCEPT !.dtype = IF defs.dtype = "none" THEN @ ELSE defs.dtype,
                  !.default = IF defs.default = NullV THEN @
                              ELSE defs.default,
                  !.repeat = defs.repeat,
                  !.sub = defs.sub,
                  !.match = defs.match]]

\* Sect.applyDefinition and Sect._setdefs
RECURSIVE ApplyDefinition(_, _)
RECURSIVE ApplyEntries(_, _, _)
SetDefs(self, key, defs) ==
    LET flagged == IF defs.dtype = "list"
                   THEN [self EXCEPT !.type = "List"] ELSE self
        subval == IF Len(defs.sub) > 0 THEN SDict(<< >>, FALSE)
                  ELSE SVar(NullV, TRUE)
        value == IF defs.dtype = "list"
                 THEN SList([i \in 1..defs.repeat |-> subval], TRUE)
                 ELSE IF defs.dtype = "dict" \/ Len(defs.sub) > 0
                 THEN SDict(<< >>, TRUE)
                 ELSE SVar(NullV, TRUE)
    IN WithKid(flagged, key,
               IF defs = NoDefs THEN value ELSE ApplyDefinition(value, defs))

ApplyEntries(self, entries, i) ==
    IF i > Len(entries) THEN self
    ELSE LET key == entries[i].key
             val == entries[i].defs
         IN ApplyEntries(
                IF key \notin DOMAIN self.kids THEN SetDefs(self, key, val)
                ELSE WithKid(self, key, ApplyDefinition(self.kids[key], val)),
                entries, i + 1)

ApplyDefinition(node, defs) ==
    IF node.t = "var" THEN VarApplyDefinition(node, defs)
    ELSE IF node.t = "list" THEN [node EXCEPT !.defs = defs]
    ELSE ApplyEntries([node EXCEPT !.defs = defs], defs.sub, 1)

\* self[key] = value on a dict node, for a key it does not hold yet.
DictAddChild(self, key, kid) ==
    IF key \in DictSectAttrs THEN self ELSE WithKid(self, key, kid)

\* getattr(self, key) of BaseSect._buildDefs
ReadAttr(self, key) ==
    IF self.t # "dict" \/ key \notin DOMAIN self.kids THEN NullV
    ELSE IF self.kids[key].t = "var" THEN GetValue(self.kids[key])
    ELSE self.kids[key]

\* The value {} of a case.
EmptyDictV == [t |-> "dict", v |-> << >>]

\* left == right where left was read from the tree and right is the value
\* of a case: BaseSect.__eq__ compares the primitive of a container.
PyEq(left, right) ==
    IF left = NullV THEN NullEq(right)
    ELSE IF left.t = "dict"
         THEN "kids" \in DOMAIN left /\ right = EmptyDictV
              /\ DOMAIN left.kids = {}
    ELSE IF left.t = "list" THEN FALSE
    ELSE left = right

\* dict | dict on defs: the keys of the case over those of the defs.
MergeCase(defs, case) ==
    LET kept == SelectSeq(defs.sub,
                    LAMBDA e : \A j \in 1..Len(case.sub) :
                                    case.sub[j].key # e.key)
    IN [defs EXCEPT !.sub = kept \o case.sub,
                    !.matched = <<case.case, case.key, case.value>>]

RECURSIVE MatchCases(_, _, _, _)
MatchCases(self, defs, cases, i) ==
    IF i > Len(cases) THEN defs
    ELSE LET case == cases[i]
             hit == /\ self.t = case.case
                    /\ \/ case.key = "*"
                       \/ PyEq(ReadAttr(self, case.key), case.value)
         IN MatchCases(self, IF hit THEN MergeCase(defs, case) ELSE defs,
                       cases, i + 1)

\* BaseSect._buildDefs of the child at `key`, and DictSect._applyDefs.
\* Both return the node and whether AttributeError was raised. A child
\* that _applyDefs creates runs _buildDefs at the end of its __init__,
\* before it is stored and flagged, and again with the other children.
RECURSIVE BuildDefs(_, _, _)
RECURSIVE DictApplyDefs(_)
RECURSIVE CreateMissing(_, _, _)
RECURSIVE BuildChildren(_, _)
CreateMissing(self, entries, i) ==
    IF i > Len(entries) THEN [node |-> self, raised |-> FALSE]
    ELSE LET child == entries[i].key
             dtype == entries[i].defs.dtype
             value == IF dtype = "dict" THEN SDict(<< >>, FALSE)
                      ELSE IF dtype = "list" THEN SList(<< >>, FALSE)
                      ELSE SVar(NullV, FALSE)
             made == IF child \in DictSectAttrs
                     THEN [node |-> value, raised |-> FALSE]
                     ELSE BuildDefs(value, child, self.defs)
         IN IF dtype = "none" THEN [node |-> self, raised |-> TRUE]
            ELSE IF child \in DOMAIN self.kids
            THEN CreateMissing(self, entries, i + 1)
            ELSE IF made.raised THEN [node |-> self, raised |-> TRUE]
            ELSE CreateMissing(
                    DictAddChild(self, child,
                                 [made.node EXCEPT !.missing = TRUE]),
                    entries, i + 1)

BuildChildren(self, keys) ==
    IF keys = {} THEN [node |-> self, raised |-> FALSE]
    ELSE LET key == CHOOSE k \in keys : TRUE
             built == BuildDefs(self.kids[key], key, self.defs)
             next == WithKid(self, key, built.node)
         IN IF built.raised THEN [node |-> next, raised |-> TRUE]
            ELSE BuildChildren(next, keys \ {key})

DictApplyDefs(self) ==
    IF self.defs = NoDefs THEN [node |-> self, raised |-> FALSE]
    ELSE LET created == CreateMissing(self, self.defs.sub, 1)
         IN IF created.raised THEN created
            ELSE BuildChildren(created.node, DOMAIN created.node.kids)

BuildDefs(self, key, parentDefs) ==
    IF parentDefs = NoDefs THEN [node |-> self, raised |-> FALSE]
    ELSE LET defs == MatchCases(self, SubDefs(parentDefs, key),
                                parentDefs.match, 1)
         IN IF self.defs = defs THEN [node |-> self, raised |-> FALSE]
            ELSE IF self.t = "dict"
                 THEN DictApplyDefs([self EXCEPT !.defs = defs])
                 ELSE [node |-> [self EXCEPT !.defs = defs],
                       raised |-> FALSE]

\* sect.applyDefinition(defs), the first time from Sect(data, defs=defs)
SectApplyDefinition ==
    /\ dGen = "Sect"
    /\ dCount < MaxApply
    /\ dTree' = ApplyDefinition(dTree, dDefs)
    /\ dOnce' = IF dCount = 0 THEN dTree' ELSE dOnce
    /\ dCount' = dCount + 1
    /\ UNCHANGED <<dGen, dDefs, dData, dRaised>>
    /\ UNCHANGED exceptDefs

\* DictSect(data, _defs=defs): BaseSect.__init__ sets _defs, _subinit makes
\* the children, each ending its own __init__ in _buildDefs, and the root
\* ends in _buildDefs.
DictConstruct ==
    /\ dGen = "DictSect"
    /\ dCount = 0
    /\ LET made == BuildChildren([dData EXCEPT !.defs = dDefs],
                                 DOMAIN dData.kids)
           applied == IF made.raised THEN made ELSE DictApplyDefs(made.node)
       IN /\ dTree' = applied.node
          /\ dRaised' = applied.raised
          /\ dOnce' = applied.node
    /\ dCount' = 1
    /\ UNCHANGED <<dGen, dDefs, dData>>
    /\ UNCHANGED exceptDefs

\* root._buildDefs() on the constructed tree
DictBuildDefs ==
    /\ dGen = "DictSect"
    /\ dCount >= 1
    /\ dCount < MaxApply
    /\ ~dRaised
    /\ LET applied == DictApplyDefs(dTree)
       IN /\ dTree' = applied.node
          /\ dRaised' = applied.raised
          /\ dOnce' = dOnce
    /\ dCount' = dCount + 1
    /\ UNCHANGED <<dGen, dDefs, dData>>
    /\ UNCHANGED exceptDefs

\* The definitions and the data the check draws from.
ModeDefs == {Defs("str", NullV, 0, << >>, << >>),
             Defs("str", StrV(<<"x">>), 0, << >>, << >>)}
KDefs == Defs("dict", NullV, 0, << >>, << >>)
ExtraDefs == Defs("int", NullV, 0, << >>, << >>)
CSubs ==
    {<< >>} \cup {<<Entry("mode", m)>> : m \in ModeDefs}
            \cup {<<Entry("mode", m), Entry("k", KDefs)>> : m \in ModeDefs}
Matches ==
    {<< >>,
     <<Case("dict", "mode", StrV(<<"x">>), <<Entry("extra", ExtraDefs)>>)>>,
     <<Case("dict", "k", NoneV, <<Entry("extra", ExtraDefs)>>)>>,
     <<Case("dict", "*", NoneV, <<Entry("extra", ExtraDefs)>>)>>,
     <<Case("dict", "mode", StrV(<<"x">>),
            <<Entry("extra", Defs("str", StrV(<<"y">>), 0, << >>, << >>))>>),
       Case("dict", "extra", StrV(<<"y">>), <<Entry("more", ExtraDefs)>>)>>,
     <<Case("dict", "k", EmptyDictV, <<Entry("extra", KDefs)>>),
       Case("dict", "extra", EmptyDictV, <<Entry("more", ExtraDefs)>>)>>}
NEntries == {<< >>,
             <<Entry("n", Defs("int", IntV(7), 0, << >>, << >>))>>,
             <<Entry("n", Defs("none", IntV(7), 0, << >>, << >>))>>}
LEntries == {<< >>} \cup
            {<<Entry("l", Defs("list", NullV, r, << >>, << >>))>> : r \in 0..1}
ItemsEntries == {<< >>,
                 <<Entry("items", Defs("int", NullV, 0, << >>, << >>))>>}
Schemas ==
    {Defs("dict", NullV, 0,
          <<Entry("c", Defs("dict", NullV, 0, cs, << >>))>> \o n \o l \o it,
          m) :
        cs \in CSubs, m \in Matches, n \in NEntries, l \in LEntries,
        it \in ItemsEntries}

CData == {<< >>} \cup
         {[k \in {"mode"} |-> SVar(StrV(<<v>>), FALSE)] : v \in {"x", "y"}}
DataTrees ==
    {SDict(kids, FALSE) :
        kids \in UNION {[ks -> {SVar(IntV(1), FALSE)}
                               \cup {SDict(c, FALSE) : c \in CData}] :
                        ks \in SUBSET {"c", "n"}}}

DefsInit ==
    /\ dGen \in {"Sect", "DictSect"}
    /\ dDefs \in Schemas
    /\ dData \in {d \in DataTrees :
                    /\ "c" \in DOMAIN d.kids => d.kids["c"].t = "dict"
                    /\ "n" \in DOMAIN d.kids => d.kids["n"].t = "var"}
    /\ dTree = dData
    /\ dOnce = dData
    /\ dCount = 0
    /\ dRaised = FALSE

DefsIdle ==
    /\ dGen = "Sect"
    /\ dDefs = NoDefs
    /\ dData = SDict(<< >>, FALSE)
    /\ dTree = dData
    /\ dOnce = dData
    /\ dCount = 0
    /\ dRaised = FALSE

\* ------------------------------------------------------------------------
\* Magics: magics.py (replace) and interpolate.py (lookup, interpolate)
\* ------------------------------------------------------------------------

NL == "\n"

\* '${' + body + '}'
Magic(body) == <<"$", "{">> \o body \o <<"}">>

\* '.a.b' for the keys a, b
RECURSIVE Dotted(_)
Dotted(keys) ==
    IF keys = << >> THEN << >>
    ELSE <<".">> \o Chars(Head(keys)) \o Dotted(Tail(keys))

\* s[i:].startswith(p)
StartsAt(s, i, p) ==
    i + Len(p) - 1 <= Len(s) /\ SubSeq(s, i, i + Len(p) - 1) = p

\* str.replace(old, new)
StrReplace(s, old, new) ==
    LET RECURSIVE F(_)
        F(i) == IF i > Len(s) THEN << >>
                ELSE IF StartsAt(s, i, old) THEN new \o F(i + Len(old))
                ELSE <<s[i]>> \o F(i + 1)
    IN F(1)

\* str.split('.')
SplitDot(s) ==
    LET RECURSIVE F(_, _, _)
        F(i, cur, acc) ==
            IF i > Len(s) THEN Append(acc, cur)
            ELSE IF s[i] = "." THEN F(i + 1, << >>, Append(acc, cur))
            ELSE F(i + 1, Append(cur, s[i]), acc)
    IN F(1, << >>, << >>)

\* str(value) of a scalar; of a section, its repr (shortened)
Str(value) ==
    IF value.t = "str" THEN value.v
    ELSE IF value.t = "dict" THEN <<"<", "S", "e", "c", "t", ">">>
    ELSE IF value.t = "int" THEN <<CHOOSE c \in {"0", "1", "2"} :
                                     value.v = CASE c = "0" -> 0
                                                 [] c = "1" -> 1
                                                 [] c = "2" -> 2>>
    ELSE IF value.t = "None" THEN <<"N", "o", "n", "e">>
    ELSE IF value.t = "bool"
    THEN IF value.v THEN <<"T", "r", "u", "e">>
         ELSE <<"F", "a", "l", "s", "e">>
    ELSE IF value.t = "float"
    THEN <<CHOOSE c \in {"0", "1", "2"} :
                value.v = CASE c = "0" -> 0 [] c = "1" -> 1 [] c = "2" -> 2,
           ".", "0">>
    ELSE IF value.t = "path" THEN value.v
    ELSE IF value.t = "bytes"
    THEN <<"b", "'">> \o [i \in 1..value.v |-> "\\x00"] \o <<"'">>
    ELSE <<"N", "u", "l", "l">>

\* The first '}' at or after position i, 0 when there is none.
Closing(s, i) ==
    LET js == {j \in i..Len(s) : s[j] = "}"}
    IN IF js = {} THEN 0 ELSE CHOOSE j \in js : \A k \in js : j <= k

\* re.findall(magic_regex, value) with magic_regex = r"\${([\.\$\!].*?)}"
FindMagics(s) ==
    LET RECURSIVE F(_)
        F(i) ==
            IF i + 3 > Len(s) THEN << >>
            ELSE LET j == Closing(s, i + 3)
                     hit == /\ s[i] = "$" /\ s[i + 1] = "{"
                            /\ s[i + 2] \in {".", "$", "!"}
                            /\ j > 0
                            /\ \A k \in (i + 3)..(j - 1) : s[k] # NL
                 IN IF hit THEN <<SubSeq(s, i + 2, j - 1)>> \o F(j + 1)
                    ELSE F(i + 1)
    IN F(1)

\* re.findall(MAGIC, string) with MAGIC = r'\${([^}]*)\}'
FindMAGIC(s) ==
    LET RECURSIVE F(_)
        F(i) ==
            IF i + 2 > Len(s) THEN << >>
            ELSE LET j == Closing(s, i + 2)
                 IN IF s[i] = "$" /\ s[i + 1] = "{" /\ j > 0
                    THEN <<SubSeq(s, i + 2, j - 1)>> \o F(j + 1)
                    ELSE F(i + 1)
    IN F(1)

\* data.get(key, other=Null, var=True) down the keys, then Var.getValue;
\* a scalar has no get.
RECURSIVE ConfigGet(_, _)
ConfigGet(data, keys) ==
    IF keys = << >>
    THEN IF data.t = "var" THEN data.value ELSE data
    ELSE IF data = NullV THEN NullV
    ELSE IF data.t = "var" THEN RaisedV("AttributeError")
    ELSE IF KeyOf(Head(keys)) \notin DOMAIN data.kids THEN NullV
    ELSE ConfigGet(data.kids[KeyOf(Head(keys))], Tail(keys))

\* magics.replace(value) against the config `config`
RECURSIVE ReplaceMatches(_, _, _)
ReplaceMatches(value, matches, config) ==
    IF matches = << >> THEN StrV(value)
    ELSE LET match == Head(matches)
             data == IF Head(match) = "."
                     THEN ConfigGet(config, Tail(SplitDot(match)))
                     ELSE NullV
         IN IF data.t = "raised" THEN data
            ELSE ReplaceMatches(
                    IF data # NullV
                    THEN StrReplace(value, Magic(match), Str(data))
                    ELSE value,
                    Tail(matches), config)

Replace(value, config) ==
    IF value = <<"\\">> THEN NullV
    ELSE ReplaceMatches(value, FindMagics(value), config)

\* interpolate.lookup(string, relative, absolute): `relative` is the path of
\* the scalar in the tree `root`.
RECURSIVE LookupParts(_, _)
LookupParts(obj, parts) ==
    IF parts = << >> THEN IF obj.t = "var" THEN obj.value ELSE obj
    ELSE IF obj = NullV THEN NullV
    ELSE IF obj.t # "dict" THEN RaisedV("AttributeError")
    ELSE IF KeyOf(Head(parts)) \notin DOMAIN obj.kids
         THEN LookupParts(NullV, Tail(parts))
    ELSE LET kid == obj.kids[KeyOf(Head(parts))]
         IN LookupParts(IF kid.t = "var" THEN kid.value ELSE kid,
                        Tail(parts))

\* lookup taking one step up too few.
InterpolateLookup_Mutant(string, relative, root) ==
    LET parts == SplitDot(string)
        blanks == {i \in 1..Len(parts) :
                        \A k \in 1..i : parts[k] = << >>}
        ups == Cardinality(blanks)
        first == IF ups = Len(parts) THEN Len(parts) ELSE ups + 1
    IN IF Len(string) > 0 /\ Head(string) = "."
       THEN IF ups - 1 > Len(relative) THEN NullV
            ELSE LookupParts(
                    Lookup(root,
                           SubSeq(relative, 1, Len(relative) - (ups - 1))),
                    SubSeq(parts, first, Len(parts)))
       ELSE LookupParts(root, parts)

InterpolateLookup(string, relative, root) ==
    LET parts == SplitDot(string)
        blanks == {i \in 1..Len(parts) :
                        \A k \in 1..i : parts[k] = << >>}
        ups == Cardinality(blanks)
        first == IF ups = Len(parts) THEN Len(parts) ELSE ups + 1
    IN IF Len(string) > 0 /\ Head(string) = "."
       THEN IF ups > Len(relative) THEN NullV
            ELSE LookupParts(
                    Lookup(root, SubSeq(relative, 1, Len(relative) - ups)),
                    SubSeq(parts, first, Len(parts)))
       ELSE LookupParts(root, parts)

\* The replacement of re.sub as the template the re module expands: the
\* escapes it knows, an error for the others.
Escapes == [n |-> NL, t |-> "\t", r |-> "\r", f |-> "\f",
            a |-> "BEL", b |-> "BS", v |-> "VT"]
Template(repl) ==
    LET RECURSIVE F(_)
        F(i) ==
            IF i > Len(repl) THEN [ok |-> TRUE, s |-> << >>]
            ELSE IF repl[i] # "\\"
            THEN LET rest == F(i + 1)
                 IN [ok |-> rest.ok, s |-> <<repl[i]>> \o rest.s]
            ELSE IF i = Len(repl) THEN [ok |-> FALSE, s |-> << >>]
            ELSE LET c == repl[i + 1]
                     rest == F(i + 2)
                 IN IF c = "\\"
                    THEN [ok |-> rest.ok, s |-> <<"\\">> \o rest.s]
                    ELSE IF c \in DOMAIN Escapes
                    THEN [ok |-> rest.ok, s |-> <<Escapes[c]>> \o rest.s]
                    ELSE IF c \in {"/", ".", "$", "{", "}"}
                    THEN [ok |-> rest.ok, s |-> <<"\\", c>> \o rest.s]
                    ELSE [ok |-> FALSE, s |-> << >>]
    IN F(1)

\* re.sub('\${' + match + '}', repl, string): a '.' of the match is the
\* regex wildcard.
MatchesAt(s, i, match) ==
    /\ i + Len(match) + 2 <= Len(s)
    /\ s[i] = "$" /\ s[i + 1] = "{"
    /\ \A k \in 1..Len(match) :
            IF match[k] = "." THEN s[i + 1 + k] # NL
            ELSE s[i + 1 + k] = match[k]
    /\ s[i + 2 + Len(match)] = "}"

ReSub(match, repl, s) ==
    LET RECURSIVE F(_)
        F(i) == IF i > Len(s) THEN << >>
                ELSE IF MatchesAt(s, i, match)
                THEN repl \o F(i + Len(match) + 3)
                ELSE <<s[i]>> \o F(i + 1)
    IN F(1)

\* interpolate(string, instance, relativity) taking set(matches) in `order`
RECURSIVE InterpolateMatches(_, _, _, _)
InterpolateMatches(string, order, instance, root) ==
    IF order = << >> THEN StrV(string)
    ELSE LET match == Head(order)
             value == InterpolateLookup(match, instance, root)
             text == IF Str(value) = <<"\\">> THEN <<"\\", "\\">>
                     ELSE Str(value)
             repl == Template(text)
         IN IF value.t = "raised" THEN value
            ELSE IF value = NullV
            THEN InterpolateMatches(string, Tail(order), instance, root)
            ELSE IF Magic(match) = string THEN value
            ELSE IF value.t = "dict"
            THEN InterpolateMatches(string, Tail(order), instance, root)
            ELSE IF ~repl.ok THEN RaisedV("re.error")
            ELSE InterpolateMatches(ReSub(match, repl.s, string),
                                    Tail(order), instance, root)

Relativity(string, relativity) ==
    IF relativity THEN string
    ELSE StrReplace(string, <<"$", "{", ".">>, <<"$", "{">>)

\* The orders in which set(matches) may come.
Orders(matches) ==
    LET set == {matches[i] : i \in 1..Len(matches)}
    IN {o \in [1..Cardinality(set) -> set] :
            \A i, j \in 1..Cardinality(set) : i # j => o[i] # o[j]}

\* The config of the examples: default (d) holds path (p) and vars (v) with
\* x and y, foo (o) holds file (f); with `default<-foo` the config is the
\* one section patched over the other.
DefaultSect(path) ==
    DictN([k \in {"p", "v"} |->
            IF k = "p" THEN VarN(StrV(path))
            ELSE DictN([j \in {"x", "y"} |->
                            VarN(IntV(IF j = "x" THEN 1 ELSE 2))])])
FooSect(file) == DictN([k \in {"f"} |-> VarN(StrV(file))])
ConfigOf(in) ==
    IF in.patched THEN SectPatch(DefaultSect(in.path), FooSect(in.file))
    ELSE DictN([k \in {"d", "o"} |->
                    IF k = "d" THEN DefaultSect(in.path)
                    ELSE FooSect(in.file)])
FileOf(in) == IF in.patched THEN <<"f">> ELSE <<"o", "f">>

Slashed(a, b, c) == Magic(a) \o <<"/">> \o Magic(b) \o <<"/">> \o Magic(c)
Example1 == Slashed(Dotted(<<"d", "p">>), Dotted(<<"d", "v", "x">>),
                    Dotted(<<"d", "v", "y">>))
Example2 == Slashed(Dotted(<<"p">>), Dotted(<<"v", "x">>),
                    Dotted(<<"v", "y">>))
Files == {Example1, Example2,
          Slashed(Tail(Dotted(<<"d", "p">>)), Tail(Dotted(<<"d", "v", "x">>)),
                  Tail(Dotted(<<"d", "v", "y">>))),
          Slashed(<<".">> \o Dotted(<<"d", "p">>),
                  <<".">> \o Dotted(<<"d", "v", "x">>),
                  <<".">> \o Dotted(<<"d", "v", "y">>)),
          Magic(Dotted(<<"p">>)),
          Magic(Dotted(<<"v", "x">>)),
          Magic(Dotted(<<"v">>)),
          Magic(<<".">> \o Dotted(<<"d", "p">>)),
          Magic(Tail(Dotted(<<"d", "p">>))),
          Magic(Dotted(<<"v", "x">>)) \o Magic(Dotted(<<"v", "x">>)),
          Magic(Dotted(<<"p">>)) \o Magic(Dotted(<<"v", "x">>))}
PathValues == {<<"/", "a", "b", "c">>, <<"c", "\\", "n", "e", "w">>,
               <<"c", "\\", "d">>, <<"\\", "\\", "a">>, << >>}

\* magics.replace(config.foo.file) with the config as the global Config
MagicsReplace ==
    /\ mPc = "new"
    /\ mIn.by = "replace"
    /\ mRes' = Replace(mIn.file, ConfigOf(mIn))
    /\ mPc' = "read"
    /\ UNCHANGED mIn
    /\ UNCHANGED exceptMagics

\* interpolate(file, instance, relativity=...) of the scalar file
Interpolate ==
    /\ mPc = "new"
    /\ mIn.by = "interpolate"
    /\ LET string == Relativity(mIn.file, mIn.relativity)
       IN \E order \in Orders(FindMAGIC(string)) :
            mRes' = InterpolateMatches(string, order, FileOf(mIn),
                                       ConfigOf(mIn))
    /\ mPc' = "read"
    /\ UNCHANGED mIn
    /\ UNCHANGED exceptMagics

MagicsInit ==
    /\ mIn \in [path : PathValues, file : Files, patched : BOOLEAN,
                by : {"replace", "interpolate"}, relativity : BOOLEAN]
    /\ mIn.by = "replace" => mIn.relativity
    /\ mRes = NoneV
    /\ mPc = "new"

MagicsIdle ==
    /\ mIn = [path |-> << >>, file |-> << >>, patched |-> FALSE,
              by |-> "replace", relativity |-> TRUE]
    /\ mRes = NoneV
    /\ mPc = "new"

\* ------------------------------------------------------------------------
\* The backslash: types.py (cast, yaml), magics.py (replace) and var.py
\* (replace, __setattr__, dumpYaml)
\* ------------------------------------------------------------------------

Backslash == StrV(<<"\\">>)
FloatV(n) == [t |-> "float", v |-> n]
BytesV(n) == [t |-> "bytes", v |-> n]
PathV(s) == [t |-> "path", v |-> s]

\* The labels of the dtype classes; "any" is what getType gives otherwise.
DtypeLabels == {"any", "str", "int", "bool", "float", "bytes", "path"}

\* cls.dtype(value) for str, int, bool, float and bytes
Construct(dtype, value) ==
    CASE dtype = "str" -> StrV(Str(value))
      [] dtype = "int" ->
            IF value.t = "int" THEN value
            ELSE IF value = StrV(<<"1">>) THEN IntV(1)
            ELSE RaisedV("ValueError")
      [] dtype = "bool" ->
            IF value.t = "int" THEN BoolV(value.v # 0)
            ELSE BoolV(Len(value.v) > 0)
      [] dtype = "float" ->
            IF value.t = "int" THEN FloatV(value.v)
            ELSE IF value = StrV(<<"1">>) THEN FloatV(1)
            ELSE RaisedV("ValueError")
      [] dtype = "bytes" ->
            IF value.t = "int" THEN BytesV(value.v)
            ELSE RaisedV("TypeError")

\* Types.cast, Any.cast and Path.cast
Cast(dtype, value) ==
    IF dtype = "any" THEN value
    ELSE IF dtype = "path"
    THEN IF value = NullV THEN Backslash
         ELSE PathV(IF Str(value) = << >> THEN <<".">> ELSE Str(value))
    ELSE IF value = Backslash THEN NullV
    ELSE IF value \in {NullV, NoneV} THEN value
    ELSE Construct(dtype, value)

\* Types.yaml and Str.yaml
Yaml(dtype, value) ==
    LET text == IF value = NullV THEN <<"\\">> ELSE Str(value)
    IN IF dtype = "str" /\ text = << >> THEN <<"\"", "\"">> ELSE text

\* Var.replace(value): what replaces the value, None for nothing; the
\* strings of the model hold no magic.
VarReplace(value) ==
    IF value = Backslash THEN Replace(value.v, DictN(<< >>)) ELSE NoneV

\* Var.__setattr__('value', value): the value kept and the missing flag
VarSet(value) ==
    LET new == VarReplace(value)
        kept == IF new # NoneV THEN new ELSE value
    IN [value |-> kept, missing |-> kept = NullV]

\* Var.getValue() as Var.dumpYaml reads it, then the scalar of the line
VarDump(value, default) ==
    LET read == IF value = NullV THEN default ELSE value
    IN IF read = NullV THEN <<"\\">> ELSE Str(read)

\* var.value = input on a Var of the given dtype
VarSetValue ==
    /\ bPc = "new"
    /\ bIn.by = "Var"
    /\ bVal' = VarSet(bIn.input).value
    /\ bMiss' = VarSet(bIn.input).missing
    /\ bPc' = "resolved"
    /\ UNCHANGED <<bIn, bOut>>
    /\ UNCHANGED exceptSlash

\* getType(dtype).cast(input)
TypesCast ==
    /\ bPc = "new"
    /\ bIn.by = "Types"
    /\ bVal' = Cast(bIn.dtype, bIn.input)
    /\ bPc' = "resolved"
    /\ UNCHANGED <<bIn, bOut, bMiss>>
    /\ UNCHANGED exceptSlash

\* var.dumpYaml()
VarDumpYaml ==
    /\ bPc = "resolved"
    /\ bIn.by = "Var"
    /\ bOut' = VarDump(bVal, bIn.default)
    /\ bPc' = "dumped"
    /\ UNCHANGED <<bIn, bVal, bMiss>>
    /\ UNCHANGED exceptSlash

\* getType(dtype).yaml(value)
TypesYaml ==
    /\ bPc = "resolved"
    /\ bIn.by = "Types"
    /\ bVal.t # "raised"
    /\ bOut' = Yaml(bIn.dtype, bVal)
    /\ bPc' = "dumped"
    /\ UNCHANGED <<bIn, bVal, bMiss>>
    /\ UNCHANGED exceptSlash

SlashInputs == {Backslash, StrV(<<"a">>), StrV(<<"1">>), StrV(<< >>),
                IntV(1), NullV, NoneV}

SlashInit ==
    /\ bIn \in [by : {"Var", "Types"}, dtype : DtypeLabels,
                input : SlashInputs, default : {NullV, IntV(2)}]
    /\ bVal = NoneV
    /\ bOut = << >>
    /\ bMiss = FALSE
    /\ bPc = "new"

SlashIdle ==
    /\ bIn = [by |-> "Var", dtype |-> "any", input |-> NoneV,
              default |-> NullV]
    /\ bVal = NoneV
    /\ bOut = << >>
    /\ bMiss = FALSE
    /\ bPc = "new"

\* ------------------------------------------------------------------------
\* Validation: var.py (validate, checkType), sect.py (validate), base.py
\* (validateObj), builtins.py (the group checks) and funcs.py (ErrorsDict)
\* ------------------------------------------------------------------------

\* The keys the defs of the validated section declare, in their order.
Siblings == <<"a", "b", "c">>
SiblingSet == {Siblings[i] : i \in 1..Len(Siblings)}

\* What a check returns: True, or a string (kept with the names it lists).
Passed == BoolV(TRUE)
Failure(text, names) == [t |-> "str", v |-> text, names |-> names]

\* ErrorsDict and ErrorsDict.reduce for the errors of one scalar: only the
\* str entries stay.
NoErrors == [k \in {} |-> Passed]
ErrorsReduce(errors) ==
    [k \in {c \in DOMAIN errors : errors[c].t = "str"} |-> errors[k]]

\* A child of the section.  kind is its class (Var, Sect, DictSect), or
\* "none" once the key was deleted; tagged says that its defs carry the tag
\* of the group check.
Child(kind, value, default, dtype, required, checks, missing, tagged) ==
    [kind |-> kind, value |-> value, default |-> default, dtype |-> dtype,
     required |-> required, checks |-> checks, missing |-> missing,
     strict |-> FALSE, skip |-> FALSE, tagged |-> tagged, tmp |-> NullV]

\* Var.getValue(): a value under validation comes first; the default
\* stands in for a Null value.
VarGetValue(var) ==
    IF var.tmp # NullV THEN var.tmp
    ELSE IF var.value = NullV THEN var.default ELSE var.value

\* check_dtype: the typeless dtypes pass, otherwise isinstance.
CheckDtype(value, dtype) ==
    IF dtype = "any" \/ value.t = dtype THEN Passed
    ELSE Failure("Wrong type", << >>)

\* Var.checkType
CheckType(var, value, strict) ==
    IF ~(var.strict \/ strict) /\ ~var.required /\ value = NullV
    THEN Passed
    ELSE CheckDtype(value, var.dtype)

\* A check of the defs, {check: args}: the name of a registered function
\* and the arguments it is called with.
DeclaredCheck(check, args) == [check |-> check, args |-> args]

\* oneof(var, *opts): the value has to be among the options.
Oneof(var, options) ==
    IF VarGetValue(var) \in options THEN Passed
    ELSE Failure("Invalid option", << >>)

\* Var.validate(): the errors dict of one scalar. errors[check] is assigned
\* for each declared check in turn, so the last one declared under a name
\* gives the entry of that name.
VarValidate(var, strict) ==
    IF var.skip THEN NoErrors
    ELSE IF var.missing /\ ~(var.strict \/ strict) THEN
        IF var.required
        THEN [k \in {"required"} |-> Failure("This key is required", << >>)]
        ELSE NoErrors
    ELSE [k \in {"type"} \cup
                 {var.checks[i].check : i \in 1..Len(var.checks)} |->
            IF k = "type" THEN CheckType(var, VarGetValue(var), strict)
            ELSE LET last == CHOOSE i \in 1..Len(var.checks) :
                                /\ var.checks[i].check = k
                                /\ \A j \in (i + 1)..Len(var.checks) :
                                        var.checks[j].check # k
                 IN  Oneof(var, var.checks[last].args)]

\* Var.validate(value, strict): the scalar after the call, and its errors.
\* A value that is given is kept in _tmp_value, which is reset at the end
\* of the checks and not where the call returns before them.
VarValidateValue(var, value, strict) ==
    LET tried == IF value = NullV THEN var ELSE [var EXCEPT !.tmp = value]
    IN  [var |-> IF tried.skip
                    \/ (tried.missing /\ ~(tried.strict \/ strict))
                 THEN tried
                 ELSE [tried EXCEPT !.tmp = NullV],
         errors |-> VarValidate(tried, strict)]

\* one_valid(items) from item i on: every item is made strict and
\* validated; the items skip their checks from then on if one was valid.
\* None stands for a deleted key and has no attribute to assign: the
\* register wrapper returns the text of the AttributeError.
RECURSIVE OneValid(_, _, _, _)
OneValid(kids, items, i, ov) ==
    IF i > Len(items) THEN
        IF ov
        THEN [kids |-> [n \in DOMAIN kids |->
                         IF \E j \in 1..Len(items) : items[j] = n
                         THEN [kids[n] EXCEPT !.skip = TRUE] ELSE kids[n]],
              result |-> Passed]
        ELSE [kids |-> kids,
              result |-> Failure("At least one key must be valid", items)]
    ELSE IF kids[items[i]].kind = "none" THEN
        [kids |-> kids, result |-> Failure("AttributeError", << >>)]
    ELSE
        LET item == [kids[items[i]] EXCEPT !.skip = FALSE, !.strict = TRUE]
            done == VarValidateValue(item, NullV, FALSE)
            errs == ErrorsReduce(done.errors)
        IN  OneValid([kids EXCEPT ![items[i]] = done.var], items, i + 1,
                     ov \/ DOMAIN errs = {})

\* item._f.value: a Var is its own _f, a Sect answers with a view whose
\* value is its dict, a DictSect has no _f and looks the name up among its
\* children, which gives Null (or None when _nulls is off); None has no _f.
FlagsValue(item, nulls) ==
    CASE item.kind = "Var" -> item.value
      [] item.kind = "Sect" -> EmptyDictV
      [] item.kind = "DictSect" ->
            IF nulls THEN NullGetattr("value")
            ELSE RaisedV("AttributeError")
      [] OTHER -> RaisedV("AttributeError")

\* The names mutually_exclusive collects from item i on.
RECURSIVE Defined(_, _, _, _)
Defined(kids, items, i, nulls) ==
    IF i > Len(items) THEN << >>
    ELSE (IF FlagsValue(kids[items[i]], nulls) # NullV
          THEN <<items[i]>> ELSE << >>)
         \o Defined(kids, items, i + 1, nulls)

\* mutually_exclusive(items), behind the register wrapper.
MutuallyExclusive(kids, items, nulls) ==
    IF \E i \in 1..Len(items) :
          FlagsValue(kids[items[i]], nulls) = RaisedV("AttributeError")
    THEN Failure("AttributeError", << >>)
    ELSE IF Len(Defined(kids, items, 1, nulls)) > 1
    THEN Failure("mutually exclusive", Defined(kids, items, 1, nulls))
    ELSE Passed

\* The keys among `names` (from i on) whose defs carry the tag.
RECURSIVE Tagged(_, _, _)
Tagged(kids, names, i) ==
    IF i > Len(names) THEN << >>
    ELSE (IF kids[names[i]].tagged THEN <<names[i]>> ELSE << >>)
         \o Tagged(kids, names, i + 1)

\* The children a section holds.
Present(kids) == {n \in DOMAIN kids : kids[n].kind # "none"}

\* What a validation returned: nothing yet, the errors dict of a section
\* (done) or of one scalar (scalar), or KeyError.
NoReport == [state |-> "none", group |-> NoneV, kids |-> NoErrors]

\* The errors of every child: Var.validate for a scalar; an empty section
\* has nothing to report.
ChildErrors(kids) ==
    [n \in Present(kids) |->
        IF kids[n].kind = "Var" THEN VarValidate(kids[n], FALSE)
        ELSE NoErrors]

\* The children after each was validated.
ChildrenValidated(kids) ==
    [n \in DOMAIN kids |->
        IF kids[n].kind = "Var"
        THEN VarValidateValue(kids[n], NullV, FALSE).var
        ELSE kids[n]]

\* Sect.validate(): the group check on the tagged keys of the defs, then
\* every child.  tags[tag] raises KeyError when no key carries the tag.
SectValidate ==
    /\ vIn.by = "Sect"
    /\ vCount < MaxValidate
    /\ LET items == Tagged(vKids, Siblings, 1)
           group == IF vIn.check = "one_valid"
                    THEN OneValid(vKids, items, 1, FALSE)
                    ELSE IF vIn.check = "mutually_exclusive"
                    THEN [kids |-> vKids,
                          result |-> MutuallyExclusive(vKids, items, TRUE)]
                    ELSE [kids |-> vKids, result |-> NoneV]
       IN  IF vIn.check # "none" /\ items = << >>
           THEN /\ vErrs' = [NoReport EXCEPT !.state = "raised"]
                /\ UNCHANGED vKids
           ELSE /\ vKids' = ChildrenValidated(group.kids)
                /\ vErrs' = [state |-> "done", group |-> group.result,
                             kids |-> ChildErrors(group.kids)]
    /\ vCount' = vCount + 1
    /\ UNCHANGED vIn
    /\ UNCHANGED exceptValidate

\* BaseSect.validateObj(): the group check on the children whose defs
\* carry the tag, then every child.
ValidateObj ==
    /\ vIn.by = "DictSect"
    /\ vCount < MaxValidate
    /\ LET present == SelectSeq(Siblings, LAMBDA n : n \in Present(vKids))
           tagged == Tagged(vKids, present, 1)
       IN  vErrs' = [state |-> "done",
                     group |-> IF vIn.check = "mutually_exclusive"
                               THEN MutuallyExclusive(vKids, tagged,
                                                      vIn.nulls)
                               ELSE NoneV,
                     kids |-> ChildErrors(vKids)]
    /\ vCount' = vCount + 1
    /\ UNCHANGED <<vIn, vKids>>
    /\ UNCHANGED exceptValidate

\* The values given to validate for a trial.
TrialValues == {IntV(1), StrV(<<"x">>)}

\* var.validate(value, strict=strict) on one scalar of the section
ValidateValue ==
    /\ vIn.by = "Sect"
    /\ vCount < MaxValidate
    /\ \E n \in Present(vKids), value \in TrialValues, strict \in BOOLEAN :
         /\ vKids[n].kind = "Var"
         /\ LET done == VarValidateValue(vKids[n], value, strict)
            IN  /\ vKids' = [vKids EXCEPT ![n] = done.var]
                /\ vErrs' = [state |-> "scalar", group |-> NoneV,
                             kids |-> [k \in {n} |-> done.errors]]
    /\ vCount' = vCount + 1
    /\ UNCHANGED vIn
    /\ UNCHANGED exceptValidate

\* del sect[key] (Sect.__delattr__): the key leaves the section, its defs
\* stay.
SectDelattr ==
    /\ vIn.by = "Sect"
    /\ Cardinality(Present(vKids)) > Len(Siblings) - MaxDelete
    /\ \E n \in Present(vKids) :
          vKids' = [vKids EXCEPT ![n].kind = "none"]
    /\ vErrs' = NoReport
    /\ UNCHANGED <<vIn, vCount>>
    /\ UNCHANGED exceptValidate

\* The scalars a section is built with: given by the data or synthesized
\* from the defs (missing), with the dtype, required flag, check and
\* default of the defs.
VarChildren(tagged) ==
    { Child("Var", NullV, NullV, "int", FALSE, << >>, TRUE, tagged),
      Child("Var", NullV, NullV, "any", FALSE, <<DeclaredCheck("oneof", {IntV(1)})>>, TRUE, tagged),
      Child("Var", NullV, NullV, "int", TRUE, << >>, TRUE, tagged),
      Child("Var", NullV, IntV(2), "int", FALSE, << >>, TRUE, tagged),
      Child("Var", IntV(1), NullV, "int", FALSE, <<DeclaredCheck("oneof", {IntV(1)})>>, FALSE, tagged),
      Child("Var", StrV(<<"x">>), NullV, "int", FALSE, << >>, FALSE, tagged),
      Child("Var", NoneV, NullV, "any", FALSE, << >>, FALSE, tagged),
      Child("Var", IntV(1), NullV, "int", FALSE,
            <<DeclaredCheck("oneof", {IntV(2)}), DeclaredCheck("oneof", {IntV(1)})>>,
            FALSE, tagged) }

\* The sections: given by the data or synthesized for a dtype of dict.
SectChildren(kind, tagged) ==
    { Child(kind, EmptyDictV, NullV, "dict", FALSE, << >>, missing, tagged) :
        missing \in BOOLEAN }

\* The third sibling takes fewer shapes.
FewChildren(tagged) ==
    { Child("Var", NullV, NullV, "int", FALSE, << >>, TRUE, tagged),
      Child("Var", IntV(1), NullV, "int", FALSE, <<DeclaredCheck("oneof", {IntV(1)})>>, FALSE, tagged),
      Child("Sect", EmptyDictV, NullV, "dict", FALSE, << >>, FALSE, tagged) }

ValidateInit ==
    /\ vIn \in [by : {"Sect", "DictSect"}, nulls : BOOLEAN,
                check : {"none", "one_valid", "mutually_exclusive"}]
    /\ vKids \in [SiblingSet ->
                    UNION { VarChildren(tagged) \cup
                            SectChildren("Sect", tagged) \cup
                            SectChildren("DictSect", tagged) :
                            tagged \in BOOLEAN }]
    /\ vIn.by = "Sect" =>
        /\ vIn.nulls
        /\ \A n \in SiblingSet : vKids[n].kind \in {"Var", "Sect"}
        /\ \E tagged \in BOOLEAN : vKids["c"] \in FewChildren(tagged)
    /\ vIn.by = "DictSect" =>
        /\ vIn.check # "one_valid"
        /\ \A n \in SiblingSet : vKids[n].kind = "DictSect"
    \* one_valid is given scalars
    /\ vIn.check = "one_valid" =>
        \A n \in SiblingSet : vKids[n].tagged => vKids[n].kind = "Var"
    /\ vErrs = NoReport
    /\ vCount = 0

ValidateIdle ==
    /\ vIn = [by |-> "Sect", nulls |-> TRUE, check |-> "none"]
    /\ vKids = [n \in SiblingSet |->
                 Child("Var", NullV, NullV, "any", FALSE, << >>, TRUE, FALSE)]
    /\ vErrs = NoReport
    /\ vCount = 0

\* ------------------------------------------------------------------------
\* The registry: funcs.py (register, getRegister) and the checks of
\* var.py (Var.validate) and sect.py (Sect.validate)
\* ------------------------------------------------------------------------

\* Names of checks: two that get registered and one that never is.
Registered == {"f", "g"}
CheckNames == Registered \cup {"h"}

\* What a registered function does when it is called: it returns a value
\* or raises.  An exception has its class and the args it was made with.
Returns(value) == [kind |-> "return", v |-> value]
Raises(class, args) == [kind |-> "raise", class |-> class, args |-> args]

\* The classes deriving from Exception; SystemExit, KeyboardInterrupt and
\* GeneratorExit derive from BaseException only.
ExceptionClasses == {"ValueError", "RuntimeError"}
BaseOnlyClasses == {"SystemExit", "KeyboardInterrupt"}

\* str(e): empty without args, str of the argument when there is one.
ExcStr(e) == IF e.args = << >> THEN << >> ELSE Str(e.args[1])

\* protect without its except clause.
Protect_Mutant(behaviour) ==
    IF behaviour.kind = "return" THEN behaviour.v
    ELSE RaisedV(behaviour.class)

\* register.wrap.protect: the call of the wrapped function; `except
\* Exception` turns what it catches into str(e).
Protect(behaviour) ==
    IF behaviour.kind = "return" THEN behaviour.v
    ELSE IF behaviour.class \in ExceptionClasses THEN StrV(ExcStr(behaviour))
    ELSE RaisedV(behaviour.class)

\* getRegister(key)(...): the protected function, or Null, which returns
\* itself when called.
CallRegister(funcs, key) ==
    IF key \in DOMAIN funcs THEN Protect(funcs[key]) ELSE NullV

\* The loop over the checks of Var.validate from check i on: errors[check]
\* is what the call returned; an exception that leaves the call ends the
\* loop.  The type check passed before.
RECURSIVE RunChecks(_, _, _, _)
RunChecks(funcs, checks, i, errors) ==
    IF i > Len(checks) THEN [raised |-> NoneV, errors |-> errors]
    ELSE LET res == CallRegister(funcs, checks[i])
         IN  IF res.t = "raised"
             THEN [raised |-> res, errors |-> errors]
             ELSE RunChecks(funcs, checks, i + 1,
                    [k \in DOMAIN errors \cup {checks[i]} |->
                        IF k = checks[i] THEN res ELSE errors[k]])

\* The loop over the children of Sect.validate from child i on.
RECURSIVE RunNodes(_, _, _, _, _)
RunNodes(funcs, checks, names, i, errors) ==
    IF i > Len(names) THEN [raised |-> NoneV, errors |-> errors]
    ELSE LET node == RunChecks(funcs, checks[names[i]], 1,
                               [k \in {"type"} |-> Passed])
         IN  IF node.raised # NoneV
             THEN [raised |-> node.raised, errors |-> errors]
             ELSE RunNodes(funcs, checks, names, i + 1,
                    [n \in DOMAIN errors \cup {names[i]} |->
                        IF n = names[i] THEN node.errors ELSE errors[n]])

\* The scalars of the validated section, in its order.
Nodes == <<"a", "b">>

\* What a registered function may do.
Behaviours ==
    {Returns(Passed), Returns(StrV(<<"n", "o">>)),
     Raises("ValueError", <<StrV(<<"b", "a", "d">>)>>),
     Raises("RuntimeError", << >>),
     Raises("ValueError", <<IntV(1)>>),
     Raises("SystemExit", <<IntV(1)>>),
     Raises("KeyboardInterrupt", << >>)}

\* @register(): the function goes into Funcs under its name, replacing
\* what was registered under it.
Register ==
    /\ gCount < MaxRegister
    /\ \E name \in Registered, behaviour \in Behaviours :
          gFuncs' = [gFuncs EXCEPT ![name] = behaviour]
    /\ gCount' = gCount + 1
    /\ gRes' = [op |-> "register", key |-> NoneV, raised |-> NoneV,
                value |-> NoneV, errors |-> NoErrors]
    /\ UNCHANGED gChecks
    /\ UNCHANGED exceptRegistry

\* getRegister(key)(): one call through the registry.
RegistryCall ==
    /\ \E key \in CheckNames :
          LET res == CallRegister(gFuncs, key)
          IN  gRes' = [op |-> "call", key |-> StrV(key),
                       raised |-> IF res.t = "raised" THEN res ELSE NoneV,
                       value |-> IF res.t = "raised" THEN NoneV ELSE res,
                       errors |-> NoErrors]
    /\ UNCHANGED <<gFuncs, gChecks, gCount>>
    /\ UNCHANGED exceptRegistry

\* Sect.validate(report=False, asbool=False) on the section of the nodes.
RegistryValidate ==
    /\ LET walk == RunNodes(gFuncs, gChecks, Nodes, 1, NoErrors)
       IN  gRes' = [op |-> "validate", key |-> NoneV,
                    raised |-> walk.raised, value |-> NoneV,
                    errors |-> walk.errors]
    /\ UNCHANGED <<gFuncs, gChecks, gCount>>
    /\ UNCHANGED exceptRegistry

\* The check lists of the defs.
CheckLists ==
    {<< >>} \cup {<<c>> : c \in CheckNames}
            \cup {<<c, d>> : c \in CheckNames, d \in CheckNames}

RegistryInit ==
    /\ gFuncs \in [Registered -> Behaviours]
    /\ gChecks \in [{Nodes[i] : i \in 1..Len(Nodes)} -> CheckLists]
    /\ gCount = 0
    /\ gRes = [op |-> "none", key |-> NoneV, raised |-> NoneV,
               value |-> NoneV, errors |-> NoErrors]

RegistryIdle ==
    /\ gFuncs = [n \in Registered |-> Returns(Passed)]
    /\ gChecks = [n \in {Nodes[i] : i \in 1..Len(Nodes)} |-> << >>]
    /\ gCount = 0
    /\ gRes = [op |-> "none", key |-> NoneV, raised |-> NoneV,
               value |-> NoneV, errors |-> NoErrors]

\* ------------------------------------------------------------------------
\* The global and the local Config: config.py (Config, replace) and
\* section.py (Section, Var)
\* ------------------------------------------------------------------------

\* The keys of the configs and the data they are made from: a is a number,
\* b a number or a string with a magic that names a.
ConfigKeys == {"a", "b"}
ConfigInputs ==
    [a : {IntV(1), IntV(2)},
     b : {IntV(1), StrV(Magic(Dotted(<<"a">>))),
          StrV(<<"x", "/">> \o Magic(Dotted(<<"a">>)))}]

\* The class attributes before the first global initialisation.
Unset == [t |-> "unset"]

\* replace(value) of config.py from the given matches on: Config() is the
\* handle of the global instance, whose attributes are those of the class;
\* without them the read recurses until RecursionError.
RECURSIVE ConfigReplaceMatches(_, _, _)
ConfigReplaceMatches(value, matches, class) ==
    IF matches = << >> THEN StrV(value)
    ELSE IF class = Unset THEN RaisedV("RecursionError")
    ELSE LET match == Head(matches)
             keys == SplitDot(match)
             key == KeyOf(keys[2])
             data == IF key \in DOMAIN class THEN class[key] ELSE NullV
         IN  ConfigReplaceMatches(
                StrReplace(value, Magic(match), Str(data)),
                Tail(matches), class)

ConfigReplace(value, class) ==
    ConfigReplaceMatches(value, FindMagics(value), class)

\* Var.replace of section.py: strings go through replace.
SectionVarReplace(value, class) ==
    IF value.t = "str" THEN ConfigReplace(value.v, class) ELSE value

\* Section(data) followed by Section.replace_(): the keys in their order;
\* `class` is what the class attributes hold while the values are replaced.
SectionReplace(data, class) ==
    LET a == SectionVarReplace(data.a, class)
        b == SectionVarReplace(data.b, class)
    IN  IF a.t = "raised" \/ b.t = "raised"
        THEN [raised |-> TRUE, sect |-> Unset]
        ELSE [raised |-> FALSE, sect |-> [a |-> a, b |-> b]]

\* Config(data): the class attributes are set to the new Section, then its
\* values are replaced.
ConfigInit ==
    /\ kCount < MaxInits
    /\ \E data \in ConfigInputs :
          /\ kGiven' = data
          /\ kClass' = SectionReplace(data, data).sect
    /\ kCount' = kCount + 1
    /\ kRaised' = FALSE
    /\ UNCHANGED kLocals
    /\ UNCHANGED exceptConfig

\* Config(data, local=True): the Section goes to the attributes of the
\* instance, then its values are replaced.
ConfigLocal ==
    /\ Len(kLocals) < MaxLocals
    /\ \E data \in ConfigInputs :
          LET new == SectionReplace(data, kClass)
          IN  IF new.raised
              THEN kRaised' = TRUE /\ UNCHANGED kLocals
              ELSE /\ kRaised' = FALSE
                   /\ kLocals' = Append(kLocals, [input |-> data,
                                                  given |-> data,
                                                  sect |-> new.sect])
    /\ UNCHANGED <<kGiven, kClass, kCount>>
    /\ UNCHANGED exceptConfig

\* Config(local=True): the instance is made from the _data of the class
\* and keeps None as its _input.
ConfigLocalCopy ==
    /\ Len(kLocals) < MaxLocals
    /\ kClass # Unset
    /\ kLocals' = Append(kLocals,
                         [input |-> NoneV, given |-> kGiven,
                          sect |-> SectionReplace(kGiven, kClass).sect])
    /\ kRaised' = FALSE
    /\ UNCHANGED <<kGiven, kClass, kCount>>
    /\ UNCHANGED exceptConfig

\* local.b = value: Config.__setattr__, Section.set_data_ and
\* Var.__setattr__, which replaces a string before it stores it.
ConfigLocalSet ==
    /\ \E i \in 1..Len(kLocals), key \in {"b"} :
       \E value \in {data[key] : data \in ConfigInputs} :
          LET new == SectionVarReplace(value, kClass)
          IN  IF new.t = "raised"
              THEN kRaised' = TRUE /\ UNCHANGED kLocals
              ELSE /\ kRaised' = FALSE
                   /\ kLocals' = [kLocals EXCEPT
                                    ![i].given[key] = value,
                                    ![i].sect[key] = new]
    /\ UNCHANGED <<kGiven, kClass, kCount>>
    /\ UNCHANGED exceptConfig

ConfigStart ==
    /\ kGiven = Unset
    /\ kClass = Unset
    /\ kLocals = << >>
    /\ kCount = 0
    /\ kRaised = FALSE

ConfigIdle == ConfigStart

\* ------------------------------------------------------------------------
\* Copies of a tree: sect.py (Sect.__deepcopy__, _setdata, _patch) and
\* null.py (NullDict.__deepcopy__)
\* ------------------------------------------------------------------------

\* Input data: a number, or a dict of input data by key.
PyDict(items) == [t |-> "pydict", items |-> items]
NoItems == [k \in {} |-> NullV]

\* A Var or Sect instance passed by reference, and the instances themselves.
Ref(id) == [t |-> "ref", id |-> id]
ObjVar(value) == [kind |-> "Var", value |-> value]
ObjSect(sect) == [kind |-> "Sect", sect |-> sect]

\* The keys of the trees in the order dicts hold them.
KeyOrder == <<"a", "b", "c">>

\* NullDict.__deepcopy__: type(self)(self), a new dict with the same values.
NullDictDeepcopy(sect) == [key \in DOMAIN sect |-> sect[key]]

\* Sect.__deepcopy__: a new instance whose __dict__ entries are deep copies;
\* _sect is a NullDict.
SectDeepcopy(heap, id) ==
    [heap |-> Append(heap, ObjSect(NullDictDeepcopy(heap[id].sect))),
     id |-> Len(heap) + 1]

\* Sect(data) and Sect._setdata(key, value); both return the heap after
\* the call, Sect(data) also the new instance.
RECURSIVE SectInit(_, _), SectInitKeys(_, _, _, _), SectSetdata(_, _, _, _)
SectInit(heap, data) ==
    IF data.t = "ref" THEN SectDeepcopy(heap, data.id)
    ELSE LET new == Len(heap) + 1
         IN  [heap |-> SectInitKeys(Append(heap, ObjSect(NoItems)),
                                    new, data, 1),
              id |-> new]

SectInitKeys(heap, id, data, i) ==
    IF i > Len(KeyOrder) THEN heap
    ELSE IF KeyOrder[i] \notin DOMAIN data.items
         THEN SectInitKeys(heap, id, data, i + 1)
         ELSE SectInitKeys(
                SectSetdata(heap, id, KeyOrder[i], data.items[KeyOrder[i]]),
                id, data, i + 1)

SectSetdata(heap, id, key, value) ==
    LET self == heap[id]
        has == key \in DOMAIN self.sect
        put(h, kid) ==
            [h EXCEPT ![id].sect =
                [k \in DOMAIN self.sect \cup {key} |->
                    IF k = key THEN kid ELSE self.sect[k]]]
    IN  IF value.t = "ref" THEN put(heap, value.id)
        ELSE IF value.t = "pydict"
        THEN LET made == SectInit(heap, value)
             IN  put(made.heap, made.id)
        ELSE IF has /\ heap[self.sect[key]].kind = "Var"
        THEN [heap EXCEPT ![self.sect[key]].value = value]
        ELSE put(Append(heap, ObjVar(value)), Len(heap) + 1)

\* Sect._patch(other, inplace) from the i-th key of Sect(other) on.
RECURSIVE SectPatchObj(_, _, _, _), SectPatchKeys(_, _, _, _)
SectPatchObj(heap, id, other, inplace) ==
    LET self == IF inplace THEN [heap |-> heap, id |-> id]
                ELSE SectDeepcopy(heap, id)
        cast == SectInit(self.heap, other)
    IN  [heap |-> SectPatchKeys(cast.heap, self.id, cast.id, 1),
         id |-> self.id]

SectPatchKeys(heap, id, other, i) ==
    IF i > Len(KeyOrder) THEN heap
    ELSE LET key == KeyOrder[i]
         IN  IF key \notin DOMAIN heap[other].sect
             THEN SectPatchKeys(heap, id, other, i + 1)
             ELSE LET item == heap[other].sect[key]
                      both == /\ heap[item].kind = "Sect"
                              /\ key \in DOMAIN heap[id].sect
                              /\ heap[heap[id].sect[key]].kind = "Sect"
                      sub == SectPatchObj(heap, heap[id].sect[key],
                                          Ref(item), FALSE)
                  IN  SectPatchKeys(
                        IF both
                        THEN SectSetdata(sub.heap, id, key, Ref(sub.id))
                        ELSE SectSetdata(heap, id, key, Ref(item)),
                        id, other, i + 1)

\* Sect.toDict(): what every path of the tree reads.
RECURSIVE SectToDict(_, _)
SectToDict(heap, id) ==
    PyDict([key \in DOMAIN heap[id].sect |->
        LET kid == heap[id].sect[key]
        IN  IF heap[kid].kind = "Var" THEN heap[kid].value
            ELSE SectToDict(heap, kid)])

\* The trees copied and the patches applied to them.
CopyInputs ==
    {PyDict([a |-> x, b |-> PyDict([c |-> y])]) : x \in Scalars,
                                                  y \in Scalars}
CopyPatches ==
    {PyDict(NoItems)}
        \cup {PyDict([a |-> x]) : x \in Scalars}
        \cup {PyDict([b |-> PyDict([c |-> x])]) : x \in Scalars}

\* The instance an edit goes to, and the section a path's last key is in.
Side(who) == IF who = "orig" THEN hOrig ELSE hCopy
SectAt(heap, id, path) ==
    IF Len(path) = 1 THEN id ELSE heap[id].sect[Head(path)]
EditPaths == {<<"a">>, <<"b", "c">>}

\* copy = orig.deepCopy()
DeepCopy ==
    /\ hCopy = 0
    /\ LET made == SectDeepcopy(hHeap, hOrig)
       IN  /\ hHeap' = made.heap
           /\ hCopy' = made.id
    /\ hLast' = "made"
    /\ UNCHANGED <<hOrig, hCount>>
    /\ UNCHANGED exceptCopy

\* copy = orig | other
OrCopy ==
    /\ hCopy = 0
    /\ \E other \in CopyPatches :
         LET made == SectPatchObj(hHeap, hOrig, other, FALSE)
         IN  /\ hHeap' = made.heap
             /\ hCopy' = made.id
    /\ hLast' = "made"
    /\ UNCHANGED <<hOrig, hCount>>
    /\ UNCHANGED exceptCopy

\* tree.a = value, tree.b.c = value on either tree
CopySetattr ==
    /\ hCopy # 0
    /\ hCount < MaxEdits
    /\ \E who \in {"orig", "copy"}, path \in EditPaths, value \in Scalars :
         LET sect == SectAt(hHeap, Side(who), path)
         IN  /\ Head(path) \in DOMAIN hHeap[Side(who)].sect
             /\ hHeap[sect].kind = "Sect"
             /\ hHeap' = SectSetdata(hHeap, sect, path[Len(path)], value)
             /\ hLast' = who
    /\ hCount' = hCount + 1
    /\ UNCHANGED <<hOrig, hCopy>>
    /\ UNCHANGED exceptCopy

\* del tree[key] on either tree
CopyDelattr ==
    /\ hCopy # 0
    /\ hCount < MaxEdits
    /\ \E who \in {"orig", "copy"} :
         \E key \in DOMAIN hHeap[Side(who)].sect :
            /\ hHeap' = [hHeap EXCEPT ![Side(who)].sect =
                            [k \in DOMAIN @ \ {key} |-> @[k]]]
            /\ hLast' = who
    /\ hCount' = hCount + 1
    /\ UNCHANGED <<hOrig, hCopy>>
    /\ UNCHANGED exceptCopy

\* tree(other): the patch in place, on either tree
CopyPatch ==
    /\ hCopy # 0
    /\ hCount < MaxEdits
    /\ \E who \in {"orig", "copy"}, other \in CopyPatches :
         /\ hHeap' = SectPatchObj(hHeap, Side(who), other, TRUE).heap
         /\ hLast' = who
    /\ hCount' = hCount + 1
    /\ UNCHANGED <<hOrig, hCopy>>
    /\ UNCHANGED exceptCopy

\* orig = Sect(data)
CopyInit ==
    /\ \E data \in CopyInputs :
         LET made == SectInit(<< >>, data)
         IN  /\ hHeap = made.heap
             /\ hOrig = made.id
    /\ hCopy = 0
    /\ hLast = "none"
    /\ hCount = 0

CopyIdle ==
    /\ hHeap = SectInit(<< >>, PyDict(NoItems)).heap
    /\ hOrig = 1
    /\ hCopy = 0
    /\ hLast = "none"
    /\ hCount = 0

\* ------------------------------------------------------------------------
\* Two lists under one key: sect.py (Sect._patch over list sections) and
\* list.py, dict.py (ListSect.applyPatch under DictSect.applyPatch)
\* ------------------------------------------------------------------------

\* The lists a section holds: up to MaxList numbers.
ListsUpTo(n) == UNION {[1..m -> Scalars] : m \in 0..n}

\* Sect._setdata on a list with convertListTypes: a Sect keyed by position.
SectOfList(items) == DictN([i \in DOMAIN items |-> VarN(items[i])])

\* Sect.toList(): the values in key order.
SectToList(sect) == [i \in DOMAIN sect.kids |-> sect.kids[i].value]

\* ListSect.applyPatch(patch): `patch` as the data of a ListSect, or a plain
\* list, which _makeObj(patch) is called on with one argument short.
ListApplyPatch(self, patch, sectType) ==
    IF ~sectType THEN RaisedV("TypeError") ELSE ListV(patch)

\* {'k': left} | {'k': right} with the `|` of Sect
SectOrList ==
    /\ lPc = "new"
    /\ lIn.gen = "Sect"
    /\ lRes' = ListV(SectToList(
                 SectPatch(DictN([k |-> SectOfList(lIn.left)]),
                           DictN([k |-> SectOfList(lIn.right)])).kids.k))
    /\ lPc' = "patched"
    /\ UNCHANGED <<lIn, exceptListPatch>>

\* {'k': left} | patch with the `|` of DictSect: the key exists and the
\* ListSect under it is patch compatible with a list and with a ListSect.
DictOrList ==
    /\ lPc = "new"
    /\ lIn.gen = "DictSect"
    /\ lRes' = ListApplyPatch(lIn.left, lIn.right, lIn.sectType)
    /\ lPc' = "patched"
    /\ UNCHANGED <<lIn, exceptListPatch>>

\* The class of the target, the two lists and whether the patch is a
\* section object or a plain dict.
ListPatchInit ==
    /\ lIn \in [gen : {"Sect", "DictSect"}, left : ListsUpTo(MaxList),
                right : ListsUpTo(MaxList), sectType : BOOLEAN]
    /\ lRes = NoneV
    /\ lPc = "new"

ListPatchIdle ==
    /\ lIn = [gen |-> "Sect", left |-> << >>, right |-> << >>,
              sectType |-> TRUE]
    /\ lRes = NoneV
    /\ lPc = "new"

\* ------------------------------------------------------------------------
\* Scalars that reference scalars: var.py (Var.reset, Var.replace),
\* magics.py (replace with callResets) and sect.py (Sect.resetVars)
\* ------------------------------------------------------------------------

\* The scalars of the config in the order the input holds them, and what the
\* input gives each: a number or one magic that names another scalar.
RefKeys == <<"a", "b", "c">>
RefKeySet == {"a", "b", "c"}
RefTo(key) == StrV(Magic(Dotted(<<key>>)))
RefData ==
    {data \in [RefKeySet -> Scalars \cup {RefTo(k) : k \in RefKeySet}] :
        \A k \in RefKeySet : data[k] # RefTo(k)}

\* str(e) of the AttributeError for a method the Var class does not define.
NoSwitchReplace ==
    <<"'Var' object has no attribute 'switchReplace'">>

\* magics.replace(value, None, callResets=...) called through the registry,
\* for a string with one config magic: the Var found is asked to
\* switchReplace() when callResets is set, and protect returns str(e) of
\* what that raises.
ReplaceCall(value, config, callResets) ==
    LET match == FindMagics(value)[1]
        key == KeyOf(SplitDot(match)[2])
    IN  IF key \notin DOMAIN config THEN StrV(value)
        ELSE IF callResets THEN StrV(NoSwitchReplace)
        ELSE IF config[key].value = NullV THEN StrV(value)
        ELSE StrV(StrReplace(value, Magic(match), Str(config[key].value)))

\* Var.replace(value): None unless the value is a string with a magic.
VarReplaceIn(value, config, recursive) ==
    IF value.t # "str" \/ FindMagics(value.v) = << >> THEN NoneV
    ELSE LET replacement == ReplaceCall(value.v, config, recursive)
         IN  IF replacement # value THEN replacement ELSE NoneV

\* Var.__setattr__('value', value)
VarAssign(var, value, config, recursive) ==
    LET new == VarReplaceIn(value, config, recursive)
    IN  IF new # NoneV THEN [value |-> new, original |-> value]
        ELSE [value |-> value, original |-> var.original]

\* Var.reset()
VarReset(var, config, recursive) ==
    IF var.value # var.original
    THEN VarAssign(var, var.original, config, recursive)
    ELSE IF var.value.t = "str" /\ Len(var.value.v) > 0
            /\ Head(var.value.v) = "$"
    THEN VarAssign(var, var.value, config, recursive)
    ELSE var

\* Sect.resetVars() from the i-th scalar on.
RECURSIVE SectResetVars(_, _, _)
SectResetVars(config, i, recursive) ==
    IF i > Len(RefKeys) THEN config
    ELSE SectResetVars(
            [config EXCEPT ![RefKeys[i]] =
                VarReset(config[RefKeys[i]], config, recursive)],
            i + 1, recursive)

\* config.resetVars() once the config is the global instance
ResetVars ==
    /\ rCount < MaxResets
    /\ rVars' = SectResetVars(rVars, 1, rIn.recursive)
    /\ rCount' = rCount + 1
    /\ UNCHANGED <<rIn, exceptRecursive>>

\* config.key = value
RefSetattr ==
    /\ rCount > 0
    /\ rCount < MaxResets
    /\ \E key \in RefKeySet, value \in Scalars :
         rVars' = [rVars EXCEPT ![key] =
                      VarAssign(rVars[key], value, rVars, rIn.recursive)]
    /\ rCount' = rCount + 1
    /\ UNCHANGED <<rIn, exceptRecursive>>

\* Sect(data) built while the global instance holds none of the keys: the
\* magics find nothing and stay as given.
RecursiveInit ==
    /\ rIn \in [data : RefData, recursive : BOOLEAN]
    /\ rVars = [k \in RefKeySet |->
                    [value |-> rIn.data[k], original |-> rIn.data[k]]]
    /\ rCount = 0

RecursiveIdle ==
    /\ rIn = [data |-> [k \in RefKeySet |-> IntV(1)], recursive |-> TRUE]
    /\ rVars = [k \in RefKeySet |->
                    [value |-> IntV(1), original |-> IntV(1)]]
    /\ rCount = 0

\* ------------------------------------------------------------------------
\* Overrides by path: base.py (BaseSect.overrideKey, __setattr__) with
\* dict.py and list.py (_addData)
\* ------------------------------------------------------------------------

\* A list node; its children are held by position. An integer key of a dict
\* is written as its digit.
ListN(items) == [t |-> "list", kids |-> items]
Digits == {"0", "1"}
IntOf(key) == IF key = "0" THEN 0 ELSE 1

\* re.findall(r'[^.[\s]+', path): the runs of characters other than '.',
\* '[' and white space.
PathFindall(path) ==
    LET RECURSIVE F(_, _, _)
        F(i, cur, acc) ==
            IF i > Len(path)
            THEN IF cur = << >> THEN acc ELSE Append(acc, cur)
            ELSE IF path[i] \in {".", "[", " "}
            THEN F(i + 1, << >>, IF cur = << >> THEN acc ELSE Append(acc, cur))
            ELSE F(i + 1, Append(cur, path[i]), acc)
    IN F(1, << >>, << >>)

\* self.get(key, var=True): Null when the lookup in _data raises.
SectGetVar(self, key) ==
    IF self.t = "dict"
    THEN IF key \in DOMAIN self.kids THEN self.kids[key] ELSE NullV
    ELSE IF key \in Digits /\ IntOf(key) + 1 \in DOMAIN self.kids
    THEN self.kids[IntOf(key) + 1]
    ELSE NullV

\* self[key] = value for a key no child is held under: _addData of the
\* class, the node and what was raised.
SectAddData(self, key, value) ==
    IF self.t = "dict"
    THEN [node |-> DictSetattr(self, key, value), raised |-> "none"]
    ELSE IF key \notin Digits THEN [node |-> self, raised |-> "TypeError"]
    ELSE IF IntOf(key) + 1 \notin DOMAIN self.kids
    THEN [node |-> self, raised |-> "IndexError"]
    ELSE [node |-> ListN([self.kids EXCEPT ![IntOf(key) + 1] = value]),
          raised |-> "none"]

\* The child of `self` under `key` replaced by `kid`, `self` holding it.
WithChild(self, key, kid) ==
    IF self.t = "dict" THEN DictN([self.kids EXCEPT ![key] = kid])
    ELSE ListN([self.kids EXCEPT ![IntOf(key) + 1] = kid])

\* BaseSect.overrideKey(path, value) with the path as the list of its
\* tokens; path[0] of an empty list raises. What a scalar does with the
\* call is left to its class: "scalar".
RECURSIVE OverrideKey(_, _, _)
OverrideKey(self, path, value) ==
    IF self.t = "var" THEN [node |-> self, raised |-> "scalar"]
    ELSE IF path = << >> THEN [node |-> self, raised |-> "IndexError"]
    ELSE
    LET token == Head(path)
        isList == token[Len(token)] = "]"
        key == KeyOf(IF isList THEN SubSeq(token, 1, Len(token) - 1)
                     ELSE token)
        child == SectGetVar(self, key)
        made == SectAddData(self, key,
                    IF Len(path) > 1
                    THEN IF isList THEN ListN(<< >>) ELSE DictN(<< >>)
                    ELSE IF isList THEN ListN(<<VarN(value)>>)
                    ELSE VarN(value))
        sub == OverrideKey(IF child # NullV THEN child
                           ELSE SectGetVar(made.node, key),
                           Tail(path), value)
    IN  IF child = NullV /\ made.raised # "none" THEN made
        ELSE IF child = NullV /\ Len(path) = 1 THEN made
        ELSE IF sub.raised # "none" THEN [node |-> self, raised |-> sub.raised]
        ELSE [node |-> WithChild(IF child # NullV THEN self ELSE made.node,
                                 key, sub.node),
              raised |-> "none"]

\* The paths and the trees of the overrides.
OverridePaths ==
    {<<"a">>, <<"a", ".", "b">>, <<".", "a", ".", "b">>,
     <<"a", "[", "0", "]">>, <<"a", "[", "0", "]", ".", "b">>,
     <<"a", ".", "b", "[", "0", "]">>, <<"b", ".", "a", ".", "b">>}
OverrideTrees ==
    {DictN(<< >>), DictN([z |-> VarN(IntV(1))]),
     DictN([a |-> DictN(<< >>), z |-> VarN(IntV(2))])}

\* tree.overrideKey(path, value)
Override ==
    /\ oCount < MaxOverrides
    /\ oRaised = "none"
    /\ \E path \in OverridePaths, value \in Scalars :
         LET tokens == PathFindall(IF Head(path) = "." THEN Tail(path)
                                   ELSE path)
             done == OverrideKey(oTree, tokens, value)
         IN  /\ done.raised # "scalar"
             /\ oTree' = done.node
             /\ oRaised' = done.raised
             /\ oLast' = [path |-> path, value |-> value, tree |-> oTree]
    /\ oCount' = oCount + 1
    /\ UNCHANGED exceptOverride

OverrideInit ==
    /\ oTree \in OverrideTrees
    /\ oLast = [path |-> << >>, value |-> NoneV, tree |-> oTree]
    /\ oRaised = "none"
    /\ oCount = 0

OverrideIdle ==
    /\ oTree = DictN(<< >>)
    /\ oLast = [path |-> << >>, value |-> NoneV, tree |-> oTree]
    /\ oRaised = "none"
    /\ oCount = 0

\* ------------------------------------------------------------------------
\* Reports: funcs.py (ErrorsDict.reduce) and the boolean that sect.py
\* (Sect.validate) and base.py (BaseSect.validateObj) return
\* ------------------------------------------------------------------------

\* An ErrorsDict: its entries by key.
ErrorsDict(items) == [t |-> "errors", items |-> items]

\* ErrorsDict.reduce without the test of the reduced nested report.
RECURSIVE ErrorsDictReduce_Mutant(_)
ErrorsDictReduce_Mutant(self) ==
    LET new(key) == ErrorsDictReduce_Mutant(self.items[key])
        kept == {key \in DOMAIN self.items :
                    self.items[key].t \in {"errors", "str", "list"}}
    IN  ErrorsDict([key \in kept |->
            IF self.items[key].t = "errors" THEN new(key)
            ELSE self.items[key]])

\* ErrorsDict.reduce
RECURSIVE ErrorsDictReduce(_)
ErrorsDictReduce(self) ==
    LET new(key) == ErrorsDictReduce(self.items[key])
        kept == {key \in DOMAIN self.items :
                    \/ /\ self.items[key].t = "errors"
                       /\ DOMAIN new(key).items # {}
                    \/ self.items[key].t \in {"str", "list"}}
    IN  ErrorsDict([key \in kept |->
            IF self.items[key].t = "errors" THEN new(key)
            ELSE self.items[key]])

\* bool(errors) of a dict
ErrorsBool(self) == DOMAIN self.items # {}

\* What checks return, and the reports of a section over its children.
CheckReturns ==
    {BoolV(TRUE), BoolV(FALSE), StrV(<<"e">>), StrV(<< >>), ListV(<< >>)}
ReportKeys == {"x", "y"}
ReportsOver(values) ==
    UNION {{ErrorsDict(f) : f \in [ks -> values]} : ks \in SUBSET ReportKeys}
Reports == ReportsOver(CheckReturns \cup ReportsOver(CheckReturns))

\* errors.reduce()
ReduceOnce ==
    /\ ePc = "new"
    /\ eReduced' = ErrorsDictReduce(eReport)
    /\ ePc' = "reduced"
    /\ UNCHANGED <<eReport, eTwice, eBool>>
    /\ UNCHANGED exceptReduce

\* errors.reduce().reduce()
ReduceTwice ==
    /\ ePc = "reduced"
    /\ eTwice' = ErrorsDictReduce(eReduced)
    /\ ePc' = "twice"
    /\ UNCHANGED <<eReport, eReduced, eBool>>
    /\ UNCHANGED exceptReduce

\* validate(asbool=True): return not bool(errors.reduce())
ValidateAsBool ==
    /\ ePc = "twice"
    /\ eBool' = ~ErrorsBool(ErrorsDictReduce(eReport))
    /\ ePc' = "bool"
    /\ UNCHANGED <<eReport, eReduced, eTwice>>
    /\ UNCHANGED exceptReduce

ReduceInit ==
    /\ eReport \in Reports
    /\ eReduced = ErrorsDict(<< >>)
    /\ eTwice = ErrorsDict(<< >>)
    /\ eBool = FALSE
    /\ ePc = "new"

ReduceIdle ==
    /\ eReport = ErrorsDict(<< >>)
    /\ eReduced = ErrorsDict(<< >>)
    /\ eTwice = ErrorsDict(<< >>)
    /\ eBool = FALSE
    /\ ePc = "new"

\* ------------------------------------------------------------------------
\* Parents, keys and names: base.py (__init__, _setName, updateChild,
\* __setattr__), dict.py (applyPatch, updateChildren) and list.py
\* (applyPatch, updateChildren)
\* ------------------------------------------------------------------------

\* A node object: its class, the key and parent (0: None) and name it
\* stores, the objects it holds by key or by position, and its value. The
\* positions of a list are written as digits where they serve as keys.
NodeObj(kind, key, parent, name, kids, value) ==
    [kind |-> kind, key |-> key, parent |-> parent, name |-> name,
     kids |-> kids, value |-> value]
IdxKey(i) == IF i = 1 THEN "0" ELSE IF i = 2 THEN "1" ELSE "2"
NodeKeyOrder == <<"k", "d", "x", "n">>

\* The keys a container holds children under, and the child under a key.
HeldKeys(node) ==
    IF node.kind = "dict" THEN DOMAIN node.kids
    ELSE IF node.kind = "list" THEN {IdxKey(i) : i \in DOMAIN node.kids}
    ELSE {}
HeldAt(node, key) ==
    IF node.kind = "dict" THEN node.kids[key]
    ELSE node.kids[CHOOSE i \in DOMAIN node.kids : IdxKey(i) = key]

\* BaseSect._setName: the name from the key and the name of the parent.
NameUnder(heap, parent, key) ==
    IF parent = 0 THEN <<key>>
    ELSE IF heap[parent].kind = "dict"
    THEN heap[parent].name \o <<".", key>>
    ELSE IF heap[parent].kind = "list"
    THEN heap[parent].name \o <<"[", key, "]">>
    ELSE <<key>>

\* updateChild(parent, key): key, parent and name of the node, then
\* updateChildren of its class.
RECURSIVE UpdateChild(_, _, _, _), UpdateChildren(_, _, _)
UpdateChild(heap, id, parent, key) ==
    UpdateChildren(
        [heap EXCEPT ![id].key = key, ![id].parent = parent,
                     ![id].name = NameUnder(heap, parent, key)],
        id, HeldKeys(heap[id]))

UpdateChildren(heap, id, keys) ==
    IF keys = {} THEN heap
    ELSE LET key == CHOOSE k \in keys : TRUE
         IN  UpdateChildren(UpdateChild(heap, HeldAt(heap[id], key), id, key),
                            id, keys \ {key})

\* _makeObj(key, value): the object of the class for the value, made with
\* its key and parent, and its children made the same way by _subinit.
RECURSIVE MakeNode(_, _, _, _), MakeDictKids(_, _, _, _), MakeListKids(_, _, _, _)
MakeNode(heap, parent, key, value) ==
    LET id == Len(heap) + 1
        name == NameUnder(heap, parent, key)
    IN  IF value.t = "dict"
        THEN [heap |-> MakeDictKids(
                  Append(heap, NodeObj("dict", key, parent, name, << >>,
                                       NoneV)),
                  id, value, 1),
              id |-> id]
        ELSE IF value.t = "list"
        THEN [heap |-> MakeListKids(
                  Append(heap, NodeObj("list", key, parent, name, << >>,
                                       NoneV)),
                  id, value, 1),
              id |-> id]
        ELSE [heap |-> Append(heap, NodeObj("var", key, parent, name, << >>,
                                            value.value)),
              id |-> id]

MakeDictKids(heap, id, value, i) ==
    IF i > Len(NodeKeyOrder) THEN heap
    ELSE LET key == NodeKeyOrder[i]
             made == MakeNode(heap, id, key, value.kids[key])
         IN  IF key \notin DOMAIN value.kids
             THEN MakeDictKids(heap, id, value, i + 1)
             ELSE MakeDictKids(
                    [made.heap EXCEPT ![id].kids =
                        [k \in DOMAIN @ \cup {key} |->
                            IF k = key THEN made.id ELSE @[k]]],
                    id, value, i + 1)

MakeListKids(heap, id, value, i) ==
    IF i > Len(value.kids) THEN heap
    ELSE LET made == MakeNode(heap, id, IdxKey(i), value.kids[i])
         IN  MakeListKids(
                [made.heap EXCEPT ![id].kids = Append(@, made.id)],
                id, value, i + 1)

\* self._addData(key, value) of a dict, and self[key] = value on a dict:
\* `value` a node object or plain data.
DictAddData(heap, self, key, id) ==
    [heap EXCEPT ![self].kids =
        [k \in DOMAIN @ \cup {key} |-> IF k = key THEN id ELSE @[k]]]

NodeSetattr(heap, self, key, value) ==
    LET made == IF value.t = "ref"
                THEN [heap |-> UpdateChild(heap, value.id, self, key),
                      id |-> value.id]
                ELSE MakeNode(heap, self, key, value)
        has == key \in DOMAIN heap[self].kids
    IN  IF made.heap[made.id].kind = "var" /\ has
           /\ heap[heap[self].kids[key]].kind = "var"
        THEN [made.heap EXCEPT ![heap[self].kids[key]].value =
                                    made.heap[made.id].value]
        ELSE DictAddData(made.heap, self, key, made.id)

\* ListSect.applyPatch(patch): self._data = patch._data
ListApplyPatchObj(heap, self, patch) ==
    [heap EXCEPT ![self].kids = heap[patch].kids]

\* DictSect.applyPatch(patch) with a DictSect as the patch
RECURSIVE DictApplyPatchObj(_, _, _), DictApplyPatchKeys(_, _, _, _)
DictApplyPatchObj(heap, self, patch) ==
    DictApplyPatchKeys(heap, self, patch, 1)

DictApplyPatchKeys(heap, self, patch, i) ==
    IF i > Len(NodeKeyOrder) THEN heap
    ELSE LET key == NodeKeyOrder[i]
             other == heap[patch].kids[key]
             this == heap[self].kids[key]
         IN  IF key \notin DOMAIN heap[patch].kids
             THEN DictApplyPatchKeys(heap, self, patch, i + 1)
             ELSE DictApplyPatchKeys(
                    IF key \in DOMAIN heap[self].kids
                       /\ heap[this].kind = heap[other].kind
                       /\ heap[this].kind # "var"
                    THEN IF heap[this].kind = "dict"
                         THEN DictApplyPatchObj(heap, this, other)
                         ELSE ListApplyPatchObj(heap, this, other)
                    ELSE NodeSetattr(heap, self, key, Ref(other)),
                    self, patch, i + 1)

\* The data of the trees, of the patches and of the assignments.
OneList(v) == ListN(<<VarN(v)>>)
NameTrees ==
    {DictN([k |-> OneList(IntV(1))]),
     DictN([k |-> OneList(IntV(1)), d |-> DictN([x |-> VarN(IntV(1))])]),
     DictN([d |-> DictN([k |-> OneList(IntV(1))])])}
NamePatches ==
    {DictN([k |-> ListN(<<VarN(IntV(2)), VarN(IntV(1))>>)]),
     DictN([d |-> DictN([x |-> VarN(IntV(2))])]),
     DictN([d |-> DictN([k |-> OneList(IntV(2))])]),
     DictN([n |-> VarN(IntV(2))])}
NameValues ==
    {VarN(IntV(2)), DictN(<< >>), DictN([x |-> VarN(IntV(2))]),
     OneList(IntV(2))}

\* tree[key] = value
NamesSetattr ==
    /\ tCount < MaxTreeOps
    /\ \E key \in {"k", "d", "n"}, value \in NameValues :
         tHeap' = NodeSetattr(tHeap, tRoot, key, value)
    /\ tCount' = tCount + 1
    /\ UNCHANGED <<tRoot, exceptNames>>

\* tree.applyPatch(DictSect(patch))
NamesPatch ==
    /\ tCount < MaxTreeOps
    /\ \E patch \in NamePatches :
         LET made == MakeNode(tHeap, 0, "", patch)
         IN  tHeap' = DictApplyPatchObj(made.heap, tRoot, made.id)
    /\ tCount' = tCount + 1
    /\ UNCHANGED <<tRoot, exceptNames>>

\* tree = DictSect(data)
NamesInit ==
    /\ \E data \in NameTrees :
         LET made == MakeNode(<< >>, 0, "", data)
         IN  /\ tHeap = made.heap
             /\ tRoot = made.id
    /\ tCount = 0

NamesIdle ==
    /\ tHeap = MakeNode(<< >>, 0, "", DictN(<< >>)).heap
    /\ tRoot = 1
    /\ tCount = 0

\* ------------------------------------------------------------------------
\* Inheritance of sections in the first Config: config.py (__init__,
\* reset_, inherit_)
\* ------------------------------------------------------------------------

\* The dict objects of a configuration live in a heap; a value of a dict is
\* a number or the reference to another dict. The keys in the order the
\* dicts hold them.
InheritKeys == <<"a", "b", "s", "x", "y", "z">>

\* The dict objects for input data given as a tree.
RECURSIVE Alloc(_, _), AllocKeys(_, _, _, _)
Alloc(heap, tree) ==
    IF tree.t # "dict" THEN [heap |-> heap, value |-> tree.value]
    ELSE LET id == Len(heap) + 1
         IN  [heap |-> AllocKeys(Append(heap, NoItems), id, tree, 1),
              value |-> Ref(id)]

AllocKeys(heap, id, tree, i) ==
    IF i > Len(InheritKeys) THEN heap
    ELSE LET key == InheritKeys[i]
             made == Alloc(heap, tree.kids[key])
         IN  IF key \notin DOMAIN tree.kids
             THEN AllocKeys(heap, id, tree, i + 1)
             ELSE AllocKeys(
                    [made.heap EXCEPT ![id] =
                        [k \in DOMAIN @ \cup {key} |->
                            IF k = key THEN made.value ELSE @[k]]],
                    id, tree, i + 1)

\* The data a value stands for, read through the references.
RECURSIVE TreeOf(_, _)
TreeOf(heap, value) ==
    IF value.t # "ref" THEN VarN(value)
    ELSE DictN([k \in DOMAIN heap[value.id] |->
                    TreeOf(heap, heap[value.id][k])])

\* update(a, b) of inherit_: every value of a is put into b, except that a
\* dict value whose key b holds is updated into b[k]. A value of b that is
\* no dict cannot be asked for a key.
RECURSIVE InheritUpdate(_, _, _, _)
InheritUpdate(state, a, b, i) ==
    IF i > Len(InheritKeys) \/ state.raised THEN state
    ELSE LET k == InheritKeys[i]
             heap == state.heap
             v == heap[a][k]
         IN  IF k \notin DOMAIN heap[a]
             THEN InheritUpdate(state, a, b, i + 1)
             ELSE IF k \in DOMAIN heap[b] /\ v.t = "ref"
             THEN IF heap[b][k].t # "ref"
                  THEN [state EXCEPT !.raised = TRUE]
                  ELSE InheritUpdate(
                         InheritUpdate(state, v.id, heap[b][k].id, 1),
                         a, b, i + 1)
             ELSE InheritUpdate(
                    [state EXCEPT !.heap[b] =
                        [n \in DOMAIN @ \cup {k} |->
                            IF n = k THEN v ELSE @[n]]],
                    a, b, i + 1)

\* Config.inherit_(keys, data): a new dict updated with data[key] for
\* every key of keys that data holds, in order.
RECURSIVE InheritFrom(_, _, _, _, _)
InheritFrom(state, keys, data, new, i) ==
    IF i > Len(keys) \/ state.raised THEN state
    ELSE IF keys[i] \notin DOMAIN state.heap[data]
    THEN InheritFrom(state, keys, data, new, i + 1)
    ELSE InheritFrom(
            InheritUpdate(state, state.heap[data][keys[i]].id, new, 1),
            keys, data, new, i + 1)

ConfigInherit(heap, keys, data) ==
    LET new == Len(heap) + 1
        done == InheritFrom([heap |-> Append(heap, NoItems),
                             raised |-> FALSE],
                            keys, data, new, 1)
    IN  [heap |-> done.heap, new |-> new, raised |-> done.raised]

\* The inputs and the inheritance orders.
SubDict(key, v) == DictN([k \in {key} |-> VarN(IntV(v))])
InheritInputs ==
    {DictN([a |-> DictN([s |-> SubDict("x", 1), y |-> VarN(IntV(1))]),
            b |-> DictN([s |-> SubDict("x", 2)])]),
     DictN([a |-> DictN([y |-> VarN(IntV(1))]),
            b |-> DictN([y |-> VarN(IntV(2)), s |-> SubDict("x", 1)])]),
     DictN([a |-> DictN([s |-> SubDict("x", 1)]),
            b |-> DictN([s |-> SubDict("z", 2)])]),
     DictN([a |-> DictN([y |-> VarN(IntV(1))]),
            b |-> DictN([y |-> SubDict("x", 2)])])}
InheritOrders == {<<"a">>, <<"b">>, <<"a", "b">>, <<"b", "a">>, <<"c", "a">>}

\* Config(input, inherit=order): the data of the configuration is
\* inherit_(order, input), and the input is kept for reset_.
ConfigNew ==
    /\ iPc = "input"
    /\ \E order \in InheritOrders :
         LET done == ConfigInherit(iHeap, order, iInput)
         IN  /\ iHeap' = done.heap
             /\ iData' = done.new
             /\ iOrder' = order
             /\ iPc' = IF done.raised THEN "raised" ELSE "built"
    /\ UNCHANGED <<iInput, iOrig, iCount>>
    /\ UNCHANGED exceptInherit

\* reset_(inherit): __init__ again with the kept input and the order.
ConfigReset ==
    /\ iPc = "built"
    /\ iCount < MaxReinit
    /\ \E order \in InheritOrders :
         LET done == ConfigInherit(iHeap, order, iInput)
         IN  /\ iHeap' = done.heap
             /\ iData' = done.new
             /\ iOrder' = order
             /\ iPc' = IF done.raised THEN "raised" ELSE "built"
    /\ iCount' = iCount + 1
    /\ UNCHANGED <<iInput, iOrig>>
    /\ UNCHANGED exceptInherit

InheritInit ==
    /\ \E input \in InheritInputs :
         LET made == Alloc(<< >>, input)
         IN  /\ iHeap = made.heap
             /\ iInput = made.value.id
             /\ iOrig = input
    /\ iData = 0
    /\ iOrder = << >>
    /\ iCount = 0
    /\ iPc = "input"

InheritIdle ==
    /\ iHeap = <<NoItems>>
    /\ iInput = 1
    /\ iOrig = DictN(<< >>)
    /\ iData = 0
    /\ iOrder = << >>
    /\ iCount = 0
    /\ iPc = "input"

\* ------------------------------------------------------------------------
\* Keys that spell attributes: base.py (__init__, __contains__,
\* __getattr__, __setattr__) and dict.py (_subinit)
\* ------------------------------------------------------------------------

\* A DictSect instance: the children in _data, and the entries of its
\* __dict__ that an assignment has replaced.
DictObj(kids, dict) == [kids |-> kids, dict |-> dict]
NoAttrs == [k \in {} |-> NullV]

\* The entries of the instance __dict__ when _subinit runs: what __init__
\* has assigned by then.
InstanceAttrs == {"_key", "_parent", "_input", "_data"}

\* DictSect._subinit(_data): a child for every key of the map that is no
\* entry of the instance __dict__.
DictSubinit(map) ==
    DictObj([key \in DOMAIN map \ InstanceAttrs |-> VarN(map[key])], NoAttrs)

\* node[key] = value: a key that hasattr finds on the class is written to
\* the instance __dict__, any other becomes or updates a child.
DictSetitem(self, key, value) ==
    IF key \in DictSectAttrs
    THEN [self EXCEPT !.dict = [k \in DOMAIN @ \cup {key} |->
                                    IF k = key THEN value ELSE @[k]]]
    ELSE [self EXCEPT !.kids = DictSetattr(DictN(@), key, VarN(value)).kids]

\* key in node: key in self._data, which is no container once the entry
\* _data of the instance holds a number.
DictContains(self, key) ==
    IF "_data" \in DOMAIN self.dict THEN RaisedV("TypeError")
    ELSE BoolV(key \in DOMAIN self.kids)

\* node[key]: the value of the child, and Null for whatever goes wrong in
\* reading self._data[key].
DictGetitem(self, key) ==
    IF "_data" \in DOMAIN self.dict \/ key \notin DOMAIN self.kids
    THEN NullV
    ELSE self.kids[key].value

\* The keys of the maps and of the assignments.
AttrKeys == {"a", "items", "get", "_data"}
AttrMaps == UNION {[ks -> Scalars] : ks \in SUBSET AttrKeys}

\* node[key] = value
KeysSetitem ==
    /\ yCount < MaxSets
    /\ \E key \in AttrKeys, value \in Scalars :
         /\ yNode' = DictSetitem(yNode, key, value)
         /\ yOp' = [op |-> "set", key |-> key, value |-> value]
    /\ yCount' = yCount + 1
    /\ UNCHANGED <<yMap, exceptKeys>>

\* node = DictSect(map)
KeysInit ==
    /\ yMap \in AttrMaps
    /\ yNode = DictSubinit(yMap)
    /\ yOp = [op |-> "new", key |-> "", value |-> NullV]
    /\ yCount = 0

KeysIdle ==
    /\ yMap = NoAttrs
    /\ yNode = DictSubinit(NoAttrs)
    /\ yOp = [op |-> "new", key |-> "", value |-> NullV]
    /\ yCount = 0

\* ------------------------------------------------------------------------
\* Specifications
\* ------------------------------------------------------------------------

InitNull ==
    /\ NullInit
    /\ PatchIdle
    /\ CfgIdle
    /\ DefsIdle
    /\ MagicsIdle
    /\ SlashIdle
    /\ ValidateIdle
    /\ RegistryIdle
    /\ ConfigIdle
    /\ CopyIdle
    /\ ListPatchIdle
    /\ RecursiveIdle
    /\ OverrideIdle
    /\ ReduceIdle
    /\ NamesIdle
    /\ InheritIdle
    /\ KeysIdle

NextNull ==
    \/ NullCall
    \/ NullSetattr
    \/ NullGetattrOp
    \/ NullGetitem
    \/ NullBool
    \/ NullEqOp
    \/ Tick

SpecNull == InitNull /\ [][NextNull]_vars

NextNullErrors ==
    \/ NullErrorsEvent
    \/ Tick

SpecNullErrors == InitNull /\ [][NextNullErrors]_vars

InitPatch ==
    /\ NullInit
    /\ PatchInit
    /\ CfgIdle
    /\ DefsIdle
    /\ MagicsIdle
    /\ SlashIdle
    /\ ValidateIdle
    /\ RegistryIdle
    /\ ConfigIdle
    /\ CopyIdle
    /\ ListPatchIdle
    /\ RecursiveIdle
    /\ OverrideIdle
    /\ ReduceIdle
    /\ NamesIdle
    /\ InheritIdle
    /\ KeysIdle

NextPatch ==
    \/ PatchSect
    \/ PatchDictSect

SpecPatch == InitPatch /\ [][NextPatch]_vars

InitCfg ==
    /\ NullInit
    /\ PatchIdle
    /\ CfgInit
    /\ DefsIdle
    /\ MagicsIdle
    /\ SlashIdle
    /\ ValidateIdle
    /\ RegistryIdle
    /\ ConfigIdle
    /\ CopyIdle
    /\ ListPatchIdle
    /\ RecursiveIdle
    /\ OverrideIdle
    /\ ReduceIdle
    /\ NamesIdle
    /\ InheritIdle
    /\ KeysIdle

NextCfg == Build

SpecCfg == InitCfg /\ [][NextCfg]_vars

InitDefs ==
    /\ NullInit
    /\ PatchIdle
    /\ CfgIdle
    /\ DefsInit
    /\ MagicsIdle
    /\ SlashIdle
    /\ ValidateIdle
    /\ RegistryIdle
    /\ ConfigIdle
    /\ CopyIdle
    /\ ListPatchIdle
    /\ RecursiveIdle
    /\ OverrideIdle
    /\ ReduceIdle
    /\ NamesIdle
    /\ InheritIdle
    /\ KeysIdle

NextDefs ==
    \/ SectApplyDefinition
    \/ DictConstruct
    \/ DictBuildDefs

SpecDefs == InitDefs /\ [][NextDefs]_vars

InitMagics ==
    /\ NullInit
    /\ PatchIdle
    /\ CfgIdle
    /\ DefsIdle
    /\ MagicsInit
    /\ SlashIdle
    /\ ValidateIdle
    /\ RegistryIdle
    /\ ConfigIdle
    /\ CopyIdle
    /\ ListPatchIdle
    /\ RecursiveIdle
    /\ OverrideIdle
    /\ ReduceIdle
    /\ NamesIdle
    /\ InheritIdle
    /\ KeysIdle

NextMagics ==
    \/ MagicsReplace
    \/ Interpolate

SpecMagics == InitMagics /\ [][NextMagics]_vars

InitSlash ==
    /\ NullInit
    /\ PatchIdle
    /\ CfgIdle
    /\ DefsIdle
    /\ MagicsIdle
    /\ SlashInit
    /\ ValidateIdle
    /\ RegistryIdle
    /\ ConfigIdle
    /\ CopyIdle
    /\ ListPatchIdle
    /\ RecursiveIdle
    /\ OverrideIdle
    /\ ReduceIdle
    /\ NamesIdle
    /\ InheritIdle
    /\ KeysIdle

NextSlash ==
    \/ VarSetValue
    \/ TypesCast
    \/ VarDumpYaml
    \/ TypesYaml

SpecSlash == InitSlash /\ [][NextSlash]_vars

InitValidate ==
    /\ NullInit
    /\ PatchIdle
    /\ CfgIdle
    /\ DefsIdle
    /\ MagicsIdle
    /\ SlashIdle
    /\ ValidateInit
    /\ RegistryIdle
    /\ ConfigIdle
    /\ CopyIdle
    /\ ListPatchIdle
    /\ RecursiveIdle
    /\ OverrideIdle
    /\ ReduceIdle
    /\ NamesIdle
    /\ InheritIdle
    /\ KeysIdle

NextValidate ==
    \/ SectValidate
    \/ ValidateValue
    \/ ValidateObj
    \/ SectDelattr

SpecValidate == InitValidate /\ [][NextValidate]_vars

InitRegistry ==
    /\ NullInit
    /\ PatchIdle
    /\ CfgIdle
    /\ DefsIdle
    /\ MagicsIdle
    /\ SlashIdle
    /\ ValidateIdle
    /\ RegistryInit
    /\ ConfigIdle
    /\ CopyIdle
    /\ ListPatchIdle
    /\ RecursiveIdle
    /\ OverrideIdle
    /\ ReduceIdle
    /\ NamesIdle
    /\ InheritIdle
    /\ KeysIdle

NextRegistry ==
    \/ Register
    \/ RegistryCall
    \/ RegistryValidate

SpecRegistry == InitRegistry /\ [][NextRegistry]_vars

InitConfig ==
    /\ NullInit
    /\ PatchIdle
    /\ CfgIdle
    /\ DefsIdle
    /\ MagicsIdle
    /\ SlashIdle
    /\ ValidateIdle
    /\ RegistryIdle
    /\ ConfigStart
    /\ CopyIdle
    /\ ListPatchIdle
    /\ RecursiveIdle
    /\ OverrideIdle
    /\ ReduceIdle
    /\ NamesIdle
    /\ InheritIdle
    /\ KeysIdle

NextConfig ==
    \/ ConfigInit
    \/ ConfigLocal
    \/ ConfigLocalCopy
    \/ ConfigLocalSet

SpecConfig == InitConfig /\ [][NextConfig]_vars

InitCopy ==
    /\ NullInit
    /\ PatchIdle
    /\ CfgIdle
    /\ DefsIdle
    /\ MagicsIdle
    /\ SlashIdle
    /\ ValidateIdle
    /\ RegistryIdle
    /\ ConfigIdle
    /\ CopyInit
    /\ ListPatchIdle
    /\ RecursiveIdle
    /\ OverrideIdle
    /\ ReduceIdle
    /\ NamesIdle
    /\ InheritIdle
    /\ KeysIdle

NextCopy ==
    \/ DeepCopy
    \/ OrCopy
    \/ CopySetattr
    \/ CopyDelattr
    \/ CopyPatch

SpecCopy == InitCopy /\ [][NextCopy]_vars

InitListPatch ==
    /\ NullInit
    /\ PatchIdle
    /\ CfgIdle
    /\ DefsIdle
    /\ MagicsIdle
    /\ SlashIdle
    /\ ValidateIdle
    /\ RegistryIdle
    /\ ConfigIdle
    /\ CopyIdle
    /\ ListPatchInit
    /\ RecursiveIdle
    /\ OverrideIdle
    /\ ReduceIdle
    /\ NamesIdle
    /\ InheritIdle
    /\ KeysIdle

NextListPatch ==
    \/ SectOrList
    \/ DictOrList

SpecListPatch == InitListPatch /\ [][NextListPatch]_vars

InitRecursive ==
    /\ NullInit
    /\ PatchIdle
    /\ CfgIdle
    /\ DefsIdle
    /\ MagicsIdle
    /\ SlashIdle
    /\ ValidateIdle
    /\ RegistryIdle
    /\ ConfigIdle
    /\ CopyIdle
    /\ ListPatchIdle
    /\ RecursiveInit
    /\ OverrideIdle
    /\ ReduceIdle
    /\ NamesIdle
    /\ InheritIdle
    /\ KeysIdle

NextRecursive ==
    \/ ResetVars
    \/ RefSetattr

SpecRecursive == InitRecursive /\ [][NextRecursive]_vars

InitOverride ==
    /\ NullInit
    /\ PatchIdle
    /\ CfgIdle
    /\ DefsIdle
    /\ MagicsIdle
    /\ SlashIdle
    /\ ValidateIdle
    /\ RegistryIdle
    /\ ConfigIdle
    /\ CopyIdle
    /\ ListPatchIdle
    /\ RecursiveIdle
    /\ OverrideInit
    /\ ReduceIdle
    /\ NamesIdle
    /\ InheritIdle
    /\ KeysIdle

NextOverride ==
    \/ Override

SpecOverride == InitOverride /\ [][NextOverride]_vars

InitReduce ==
    /\ NullInit
    /\ PatchIdle
    /\ CfgIdle
    /\ DefsIdle
    /\ MagicsIdle
    /\ SlashIdle
    /\ ValidateIdle
    /\ RegistryIdle
    /\ ConfigIdle
    /\ CopyIdle
    /\ ListPatchIdle
    /\ RecursiveIdle
    /\ OverrideIdle
    /\ ReduceInit
    /\ NamesIdle
    /\ InheritIdle
    /\ KeysIdle

NextReduce ==
    \/ ReduceOnce
    \/ ReduceTwice
    \/ ValidateAsBool

SpecReduce == InitReduce /\ [][NextReduce]_vars

InitNames ==
    /\ NullInit
    /\ PatchIdle
    /\ CfgIdle
    /\ DefsIdle
    /\ MagicsIdle
    /\ SlashIdle
    /\ ValidateIdle
    /\ RegistryIdle
    /\ ConfigIdle
    /\ CopyIdle
    /\ ListPatchIdle
    /\ RecursiveIdle
    /\ OverrideIdle
    /\ ReduceIdle
    /\ NamesInit
    /\ InheritIdle
    /\ KeysIdle

NextNames ==
    \/ NamesSetattr
    \/ NamesPatch

SpecNames == InitNames /\ [][NextNames]_vars

InitInherit ==
    /\ NullInit
    /\ PatchIdle
    /\ CfgIdle
    /\ DefsIdle
    /\ MagicsIdle
    /\ SlashIdle
    /\ ValidateIdle
    /\ RegistryIdle
    /\ ConfigIdle
    /\ CopyIdle
    /\ ListPatchIdle
    /\ RecursiveIdle
    /\ OverrideIdle
    /\ ReduceIdle
    /\ NamesIdle
    /\ InheritInit
    /\ KeysIdle

NextInherit ==
    \/ ConfigNew
    \/ ConfigReset

SpecInherit == InitInherit /\ [][NextInherit]_vars

InitKeys ==
    /\ NullInit
    /\ PatchIdle
    /\ CfgIdle
    /\ DefsIdle
    /\ MagicsIdle
    /\ SlashIdle
    /\ ValidateIdle
    /\ RegistryIdle
    /\ ConfigIdle
    /\ CopyIdle
    /\ ListPatchIdle
    /\ RecursiveIdle
    /\ OverrideIdle
    /\ ReduceIdle
    /\ NamesIdle
    /\ InheritIdle
    /\ KeysInit

NextKeys ==
    \/ KeysSetitem

SpecKeys == InitKeys /\ [][NextKeys]_vars

\* ------------------------------------------------------------------------
\* Claims about null.py
\* ------------------------------------------------------------------------

C10_Stated ==
    /\ nMaxWin > ErrLimit => nRaised
    /\ nRaised => nMaxWin > ErrLimit

\* ------------------------------------------------------------------------
\* Claims about patching
\* ------------------------------------------------------------------------

\* The value of the rightmost section that defines `path` as a leaf.
Rightmost(sects, path) ==
    LET defining == {i \in 1..Len(sects) : IsLeaf(sects[i], path)}
        last == CHOOSE i \in defining : \A j \in defining : j <= i
    IN IF defining = {} THEN Missing ELSE Lookup(sects[last], path)

\* C1 as stated: after patching sections left to right, every leaf path of
\* the resulting tree reads the value of the rightmost section that
\* defines that path.
C1_Stated ==
    \A path \in Paths :
        IsLeaf(pTree, path) =>
            Lookup(pTree, path) = Rightmost(pSects, path)

\* ------------------------------------------------------------------------
\* Claims about patch chains
\* ------------------------------------------------------------------------

\* The names of a patch expression.
NamesOf(expr) ==
    IF expr.t = "str"
    THEN LET words == Split(expr.v) IN [i \in 1..Len(words) |-> KeyOf(words[i])]
    ELSE IF expr.t = "list" THEN expr.v
    ELSE << >>

\* The chain a patch expression stands for once every declared chain is
\* expanded in front of its section; not ok if that never ends.
RECURSIVE Expanded(_, _, _)
RECURSIVE ExpandedNames(_, _, _, _)
ExpandedNames(decl, names, i, fuel) ==
    IF i > Len(names) THEN [ok |-> TRUE, seq |-> << >>]
    ELSE IF names[i] \notin SectionNames
    THEN ExpandedNames(decl, names, i + 1, fuel)
    ELSE LET rest == ExpandedNames(decl, names, i + 1, fuel)
             chain == Expanded(decl, decl[names[i]], fuel - 1)
         IN IF ~rest.ok \/ ~chain.ok THEN [ok |-> FALSE, seq |-> << >>]
            ELSE [ok |-> TRUE, seq |-> chain.seq \o <<names[i]>> \o rest.seq]

Expanded(decl, expr, fuel) ==
    IF fuel = 0 THEN [ok |-> FALSE, seq |-> << >>]
    ELSE ExpandedNames(decl, NamesOf(expr), 1, fuel)

\* A chain without the repeated mentions of a section.
RECURSIVE Firsts(_, _)
Firsts(chain, seen) ==
    IF Len(chain) = 0 THEN << >>
    ELSE IF Head(chain) \in seen THEN Firsts(Tail(chain), seen)
    ELSE <<Head(chain)>> \o Firsts(Tail(chain), seen \cup {Head(chain)})

\* `chain` is spread, in order, over order[1..n].
RECURSIVE Precedes(_, _, _)
Precedes(chain, order, n) ==
    IF Len(chain) = 0 THEN TRUE
    ELSE IF n = 0 THEN FALSE
    ELSE IF order[n] = chain[Len(chain)]
         THEN Precedes(SubSeq(chain, 1, Len(chain) - 1), order, n - 1)
         ELSE Precedes(chain, order, n - 1)

Requested == NamesOf(cfgInput.patch)

\* C2 as stated: once the constructor has parsed and applied the patch,
\* every requested section that declares mlky.patch has its fully expanded
\* chain (each section of it, in the order of their first mention) before
\* its own name in the returned order, and mlky.patch is not a field of
\* the merged tree.
C2_Stated ==
    cfgPc # "new" =>
        /\ \A i \in 1..Len(Requested) :
            (Requested[i] \in SectionNames
                    /\ cfgInput.decl[Requested[i]] # Missing) =>
                /\ cfgOrder.t = "list"
                /\ LET chain == Expanded(cfgInput.decl,
                                    cfgInput.decl[Requested[i]], MaxDepth)
                   IN /\ chain.ok
                      /\ \E n \in 1..Len(cfgOrder.v) :
                            /\ cfgOrder.v[n] = Requested[i]
                            /\ Precedes(Firsts(chain.seq, {}),
                                        cfgOrder.v, n - 1)
        /\ cfgBase # "None" => PatchKey \notin DOMAIN Merged


\* ------------------------------------------------------------------------
\* Claims about definitions
\* ------------------------------------------------------------------------

\* C3: applying the same definitions to a tree again leaves the tree that
\* applying them once left: the same children, values, defaults and
\* missing flags.
RECURSIVE Shape(_)
Shape(node) ==
    IF node.t = "var"
    THEN [t |-> "var", missing |-> node.missing, value |-> node.value,
          default |-> node.defs.default]
    ELSE IF node.t = "list"
    THEN [t |-> "list", missing |-> node.missing,
          items |-> [i \in DOMAIN node.items |-> Shape(node.items[i])]]
    ELSE [t |-> "dict", missing |-> node.missing,
          kids |-> [k \in DOMAIN node.kids |-> Shape(node.kids[k])]]

C3_Stated == (dCount >= 2 /\ ~dRaised) => Shape(dTree) = Shape(dOnce)

\* What the data gave for a key: the scalar, or the node of a container.
Stored(node) == IF node.t = "var" THEN node.value ELSE node

AllMissing(node) ==
    node.t = "dict" /\ \A k \in DOMAIN node.kids : node.kids[k].missing

\* C4: after the definitions are applied to a dict node, every ".key" of
\* them is a child of the node; a key the data lacked holds Null (an empty
\* dict or list for a container dtype), is flagged missing, and reads as
\* the default while Null stays stored; a key the data gave keeps its value
\* and carries the dtype and default of its definition.
C4_Stated ==
    (dCount >= 1 /\ ~dRaised) =>
        \A i \in 1..Len(dDefs.sub) :
            LET key == dDefs.sub[i].key
                defs == dDefs.sub[i].defs
                kid == dTree.kids[key]
            IN /\ key \in DOMAIN dTree.kids
               /\ key \notin DOMAIN dData.kids =>
                    /\ kid.missing
                    /\ defs.dtype = "dict" => AllMissing(kid)
                    /\ defs.dtype = "list" =>
                            kid.t = "list" /\ Len(kid.items) = 0
                    /\ defs.dtype \notin {"dict", "list"} =>
                            /\ kid.t = "var"
                            /\ kid.value = NullV
                            /\ GetValue(kid) = defs.default
               /\ key \in DOMAIN dData.kids =>
                    /\ kid.t = dData.kids[key].t
                    /\ kid.t = "var" => kid.value = dData.kids[key].value
                    /\ kid.t = "dict" =>
                            \A k \in DOMAIN dData.kids[key].kids :
                                /\ k \in DOMAIN kid.kids
                                /\ Stored(kid.kids[k])
                                     = Stored(dData.kids[key].kids[k])
                    /\ kid.defs.dtype = defs.dtype
                    /\ kid.defs.default = defs.default


\* ------------------------------------------------------------------------
\* Claims about magics
\* ------------------------------------------------------------------------

\* C5: reading a string that embeds several config-path magics returns it
\* with each magic replaced by the string form of the value referenced:
\* '${.default.path}/${.default.vars.x}/${.default.vars.y}' of foo.file
\* reads path + '/1/2' without a patch, and '${.path}/${.vars.x}/${.vars.y}'
\* reads the same after default<-foo.
C5_Stated ==
    (/\ mPc = "read"
     /\ \/ mIn.file = Example1 /\ ~mIn.patched
        \/ mIn.file = Example2 /\ mIn.patched)
        => mRes = StrV(mIn.path \o <<"/", "1", "/", "2">>)


\* ------------------------------------------------------------------------
\* Claims about the backslash
\* ------------------------------------------------------------------------

\* C6: a scalar whose input is the single backslash resolves to Null
\* whatever its dtype, and serialising it writes the single backslash.
C6_Stated ==
    bIn.input = Backslash =>
        /\ bPc \in {"resolved", "dumped"} => bVal = NullV
        /\ bPc = "dumped" => bOut = <<"\\">>

\* ------------------------------------------------------------------------
\* Claims about validation
\* ------------------------------------------------------------------------

\* C7 as stated: in a tree that was built and validated any number of
\* times, without the caller asking for strict validation, the report of
\* the last validation holds no error for a scalar that is missing
\* (synthesized from the schema) and not required, whatever checks the
\* scalar or its section declare.
C7_Stated ==
    (vErrs.state = "done" /\ Present(vKids) = SiblingSet) =>
        \A n \in SiblingSet :
            (vKids[n].kind = "Var" /\ vKids[n].missing
                /\ ~vKids[n].required)
            => DOMAIN ErrorsReduce(vErrs.kids[n]) = {}

\* A field is set when it holds a value other than Null; a section is
\* set when the data gave it, not when the schema synthesized it.
IsSet(kid) ==
    IF kid.kind = "Var" THEN kid.value # NullV ELSE ~kid.missing

\* C8 as stated: the mutually_exclusive check on the siblings that share
\* the tag passes when at most one of them is set, and otherwise gives one
\* failure message that names exactly the set siblings.
C8_Stated ==
    (vErrs.state = "done" /\ vIn.check = "mutually_exclusive") =>
        LET set == {n \in Present(vKids) :
                        vKids[n].tagged /\ IsSet(vKids[n])}
        IN  IF Cardinality(set) <= 1 THEN vErrs.group = Passed
            ELSE /\ vErrs.group.t = "str"
                 /\ {vErrs.group.names[i] :
                        i \in 1..Len(vErrs.group.names)} = set

\* ------------------------------------------------------------------------
\* Claims about the registry
\* ------------------------------------------------------------------------

\* The checks that are declared for any node.
Declared == UNION {{gChecks[n][i] : i \in 1..Len(gChecks[n])} :
                    n \in DOMAIN gChecks}

\* What the report has to say for one declared check: the text of the
\* exception for a function that raised, its return value otherwise.
Expected(key) ==
    IF key \notin DOMAIN gFuncs THEN NullV
    ELSE IF gFuncs[key].kind = "raise" THEN StrV(ExcStr(gFuncs[key]))
    ELSE gFuncs[key].v

\* The report holds every declared check of every node.
Complete ==
    /\ DOMAIN gRes.errors = {Nodes[i] : i \in 1..Len(Nodes)}
    /\ \A n \in DOMAIN gRes.errors :
          /\ DOMAIN gRes.errors[n] =
                {"type"} \cup {gChecks[n][i] : i \in 1..Len(gChecks[n])}
          /\ \A c \in DOMAIN gRes.errors[n] \ {"type"} :
                gRes.errors[n][c] = Expected(c)

\* C11 as stated: no call through the registry and no validation ends in
\* an exception a registered function raised; the call returns the text of
\* the exception, and the report holds it as the failure of that check next
\* to the results of all other checks of all nodes.
C11_Stated ==
    /\ gRes.op = "call" =>
          /\ gRes.raised = NoneV
          /\ gRes.value = Expected(gRes.key.v)
    /\ gRes.op = "validate" => gRes.raised = NoneV /\ Complete

\* C11 for the exceptions the wrapper catches: the same, for functions
\* that raise an exception deriving from Exception; an exception deriving
\* from BaseException only (SystemExit, KeyboardInterrupt) leaves the call
\* and ends the validation.
C11_Caught ==
    /\ gRes.op = "call" =>
          IF gRes.key.v \in DOMAIN gFuncs
             /\ gFuncs[gRes.key.v].kind = "raise"
             /\ gFuncs[gRes.key.v].class \in BaseOnlyClasses
          THEN gRes.raised = RaisedV(gFuncs[gRes.key.v].class)
          ELSE gRes.raised = NoneV /\ gRes.value = Expected(gRes.key.v)
    /\ gRes.op = "validate" =>
          IF \E c \in Declared \cap DOMAIN gFuncs :
                gFuncs[c].kind = "raise" /\ gFuncs[c].class \in BaseOnlyClasses
          THEN gRes.raised # NoneV
          ELSE gRes.raised = NoneV /\ Complete

\* A validation in which the first check of the first node raised a
\* ValueError and the checks after it, and the other node, were still run.
C11_Witness ==
    /\ gRes.op = "validate"
    /\ gRes.raised = NoneV
    /\ Len(gChecks["a"]) = 2
    /\ Len(gChecks["b"]) >= 1
    /\ gChecks["a"][1] \in DOMAIN gFuncs
    /\ gFuncs[gChecks["a"][1]] = Raises("ValueError", <<IntV(1)>>)
    /\ gRes.errors["a"][gChecks["a"][1]] = StrV(<<"1">>)
    /\ gChecks["a"][2] \in DOMAIN gRes.errors["a"]
    /\ gChecks["b"][1] \in DOMAIN gRes.errors["b"]

\* ------------------------------------------------------------------------
\* Claims about the global and the local Config
\* ------------------------------------------------------------------------

\* What a config made from `data` reads: its numbers, and its strings with
\* the magics replaced by the values of the same data.
OwnData(data) ==
    [k \in ConfigKeys |->
        IF data[k].t = "str"
        THEN StrV(StrReplace(data[k].v, Magic(Dotted(<<"a">>)),
                             Str(data.a)))
        ELSE data[k]]

\* C12 as stated: after any sequence of global initialisations and local
\* instantiations, the handles of the global instance read the data of the
\* most recent global initialisation, every local instance reads the data
\* it was created with (and was assigned since), and no local instance
\* changes what the global one reads.
C12_Stated ==
    /\ kClass # Unset => kClass = OwnData(kGiven)
    /\ \A i \in 1..Len(kLocals) :
          kLocals[i].sect = OwnData(kLocals[i].given)

\* ------------------------------------------------------------------------
\* C13: a deep copy of a tree (deepCopy, or the copy the | operator makes)
\* shares no mutable node with the original: an assignment, a deletion or
\* a patch on the copy leaves every read of the original as it was, and one
\* on the original leaves every read of the copy as it was.
\* ------------------------------------------------------------------------
C13_Stated ==
    [][/\ hLast' = "copy" =>
            SectToDict(hHeap', hOrig') = SectToDict(hHeap, hOrig)
       /\ hLast' = "orig" =>
            SectToDict(hHeap', hCopy') = SectToDict(hHeap, hCopy)]_vars

\* ------------------------------------------------------------------------
\* C14: when the patch and its target both hold a list under the same key,
\* the merged value is exactly the patch's list: its length and every
\* element are those of the right-hand list.
\* ------------------------------------------------------------------------
C14_Stated ==
    lPc = "patched" => lRes = ListV(lIn.right)

\* ------------------------------------------------------------------------
\* C15: when a string value is exactly one magic and its lookup is not
\* Absent, resolving it returns the looked-up value itself, with its
\* original type (number, section), and not its string form.
\* ------------------------------------------------------------------------
SingleMagic(string) ==
    Len(FindMAGIC(string)) = 1 /\ string = Magic(FindMAGIC(string)[1])

\* What the one magic of the string looks up, by the resolver of the read.
LookedUp ==
    IF mIn.by = "replace"
    THEN ConfigGet(ConfigOf(mIn), Tail(SplitDot(FindMagics(mIn.file)[1])))
    ELSE InterpolateLookup(
            FindMAGIC(Relativity(mIn.file, mIn.relativity))[1],
            FileOf(mIn), ConfigOf(mIn))

C15_Stated ==
    (/\ mPc = "read"
     /\ SingleMagic(mIn.file)
     /\ LookedUp # NullV
     /\ LookedUp.t # "raised")
        => mRes = LookedUp

\* ------------------------------------------------------------------------
\* C16: lookup from a scalar with a path of k >= 1 leading dots starts at
\* the scalar's k-th ancestor (one dot: its container, two dots: the parent
\* of the container), a path without a leading dot starts at the root, and
\* a path that climbs above the root yields Null instead of raising.
\* ------------------------------------------------------------------------
LeadingDots(string) ==
    Cardinality({i \in 1..Len(string) : \A k \in 1..i : string[k] = "."})

KeysOf(string) ==
    LET parts == SplitDot(SubSeq(string, LeadingDots(string) + 1,
                                 Len(string)))
    IN [i \in 1..Len(parts) |-> KeyOf(parts[i])]

\* The path of the section the lookup starts at, for the scalar at `path`.
StartOf(string, path) ==
    IF LeadingDots(string) = 0 THEN << >>
    ELSE SubSeq(path, 1, Len(path) - LeadingDots(string))

C16_Lookup ==
    (/\ mPc = "read"
     /\ mIn.by = "interpolate"
     /\ mIn.relativity
     /\ SingleMagic(mIn.file))
        => LET match == FindMAGIC(mIn.file)[1]
               found == Lookup(ConfigOf(mIn),
                               StartOf(match, FileOf(mIn)) \o KeysOf(match))
           IN  IF LeadingDots(match) > Len(FileOf(mIn))
               THEN /\ InterpolateLookup(match, FileOf(mIn),
                                         ConfigOf(mIn)) = NullV
                    /\ mRes = StrV(mIn.file)
               ELSE IF found = Missing THEN mRes = StrV(mIn.file)
               ELSE IF found.t = "var" THEN mRes = found.value
               ELSE mRes = found

\* foo.file = '${..default.path}' read without a patch: two steps up from
\* the scalar is the root, and the read is the path of default.
C16_Witness ==
    /\ mPc = "read"
    /\ mIn.by = "interpolate"
    /\ mIn.relativity
    /\ ~mIn.patched
    /\ mIn.file = Magic(<<".">> \o Dotted(<<"d", "p">>))
    /\ mRes = StrV(mIn.path)

\* ------------------------------------------------------------------------
\* C17: with relativity=False every config-path magic of the value is
\* resolved from the tree root, whatever the number of its leading dots.
\* ------------------------------------------------------------------------
C17_Stated ==
    (/\ mPc = "read"
     /\ mIn.by = "interpolate"
     /\ ~mIn.relativity
     /\ SingleMagic(mIn.file))
        => LET found == Lookup(ConfigOf(mIn),
                               KeysOf(FindMAGIC(mIn.file)[1]))
           IN  /\ found # Missing /\ found.t = "var" => mRes = found.value
               /\ found # Missing /\ found.t = "dict" => mRes = found

\* ------------------------------------------------------------------------
\* C18: with recursive resolution on, what a scalar that references another
\* scalar reads does not depend on which of the two comes first in the
\* input: a reference reads the resolved value of the scalar it names, so
\* {a: '${.b}', b: 2} reads a as '2' as {a: 1, b: '${.a}'} reads b as '1'.
\* ------------------------------------------------------------------------
RECURSIVE Resolved(_, _, _)
Resolved(data, key, fuel) ==
    IF data[key].t # "str" THEN data[key]
    ELSE IF fuel = 0 THEN NullV
    ELSE LET to == KeyOf(SplitDot(FindMagics(data[key].v)[1])[2])
             got == Resolved(data, to, fuel - 1)
         IN  IF got = NullV THEN NullV ELSE StrV(Str(got))

C18_Stated ==
    (rCount = 1 /\ rIn.recursive)
        => \A key \in RefKeySet :
              Resolved(rIn.data, key, 2) # NullV
                 => rVars[key].value = Resolved(rIn.data, key, 2)

\* ------------------------------------------------------------------------
\* C19: a scalar is flagged missing only if it exists because the schema
\* synthesized it: a scalar whose key the input data gave, the single
\* backslash included, is not flagged missing.
\* ------------------------------------------------------------------------
C19_Stated ==
    (bIn.by = "Var" /\ bPc # "new") => ~bMiss

\* ------------------------------------------------------------------------
\* C20: applying definitions in which a directive lacks its `dtype` does
\* not abort the build of the tree: that directive is skipped and the
\* children the other directives name are there.
\* ------------------------------------------------------------------------
LacksDtype(defs) ==
    \E i \in 1..Len(defs.sub) : defs.sub[i].defs.dtype = "none"

C20_Stated ==
    (dGen = "DictSect" /\ dCount >= 1 /\ LacksDtype(dDefs))
        => /\ ~dRaised
           /\ \A i \in 1..Len(dDefs.sub) :
                 (/\ dDefs.sub[i].defs.dtype # "none"
                  /\ dDefs.sub[i].key \notin DictSectAttrs)
                    => dDefs.sub[i].key \in DOMAIN dTree.kids

\* ------------------------------------------------------------------------
\* C21: overrideKey(path, value) on a path that does not exist yet creates
\* the containers between, a dict for each dotted segment and a list for
\* each bracketed index ('a[0].b' makes a a list whose item 0 is a dict
\* holding b); reading along the path then returns value, and the keys
\* outside the path are unchanged.
\* ------------------------------------------------------------------------

\* The segments of a path as written: a name, or an index in brackets.
Segments(path) ==
    LET RECURSIVE F(_)
        F(i) ==
            IF i > Len(path) THEN << >>
            ELSE IF path[i] \in {".", "]"} THEN F(i + 1)
            ELSE IF path[i] = "["
            THEN <<[index |-> TRUE, key |-> path[i + 1]]>> \o F(i + 2)
            ELSE <<[index |-> FALSE, key |-> path[i]]>> \o F(i + 1)
    IN F(1)

\* The node a tree holds along the segments, each read from the container
\* it is written for: a name from a dict, an index from a list.
RECURSIVE Along(_, _)
Along(node, segs) ==
    IF segs = << >> THEN node
    ELSE LET seg == Head(segs)
         IN  IF seg.index
             THEN IF node.t = "list" /\ IntOf(seg.key) + 1 \in DOMAIN node.kids
                  THEN Along(node.kids[IntOf(seg.key) + 1], Tail(segs))
                  ELSE Missing
             ELSE IF node.t = "dict" /\ seg.key \in DOMAIN node.kids
                  THEN Along(node.kids[seg.key], Tail(segs))
                  ELSE Missing

C21_Stated ==
    (oCount > 0 /\ Along(oLast.tree, Segments(oLast.path)) = Missing)
        => /\ oRaised = "none"
           /\ Along(oTree, Segments(oLast.path)) = VarN(oLast.value)
           /\ \A key \in DOMAIN oLast.tree.kids :
                 key # Segments(oLast.path)[1].key
                    => /\ key \in DOMAIN oTree.kids
                       /\ oTree.kids[key] = oLast.tree.kids[key]

\* ------------------------------------------------------------------------
\* C22: ErrorsDict.reduce returns exactly the failing entries: every entry
\* that is a string or a list, and every nested report that is not empty
\* after its own reduce; no passing entry stays at any depth. Reducing
\* twice equals reducing once, and validation as a boolean is true exactly
\* when the reduced report is empty.
\* ------------------------------------------------------------------------

\* The string and list entries of a report with the keys that lead to them.
RECURSIVE Failures(_)
Failures(report) ==
    UNION {IF report.items[key].t = "errors"
           THEN {[path |-> <<key>> \o f.path, value |-> f.value] :
                    f \in Failures(report.items[key])}
           ELSE IF report.items[key].t \in {"str", "list"}
           THEN {[path |-> <<key>>, value |-> report.items[key]]}
           ELSE {} : key \in DOMAIN report.items}

\* Every entry of the report is a failure or a nested report holding one.
RECURSIVE OnlyFailures(_)
OnlyFailures(report) ==
    \A key \in DOMAIN report.items :
        IF report.items[key].t = "errors"
        THEN /\ Failures(report.items[key]) # {}
             /\ OnlyFailures(report.items[key])
        ELSE report.items[key].t \in {"str", "list"}

C22_Reduce ==
    /\ ePc # "new" =>
          /\ Failures(eReduced) = Failures(eReport)
          /\ OnlyFailures(eReduced)
    /\ ePc \in {"twice", "bool"} => eTwice = eReduced
    /\ ePc = "bool" => (eBool <=> DOMAIN eReduced.items = {})

\* A report with a passing entry, a failing one inside a nested report and
\* nothing else: reduced, reduced again and returned as False.
C22_Witness ==
    /\ ePc = "bool"
    /\ eReport = ErrorsDict([x |-> BoolV(TRUE),
                             y |-> ErrorsDict([x |-> BoolV(TRUE),
                                               y |-> StrV(<<"e">>)])])
    /\ eReduced = ErrorsDict([y |-> ErrorsDict([y |-> StrV(<<"e">>)])])
    /\ ~eBool

\* ------------------------------------------------------------------------
\* C23: after any sequence of construction, assignment and patch, the
\* parent of every node below the root is the container that holds it, its
\* key is the key or index it is held under, and its name is the name of
\* the parent extended by that key, for the children of dicts and of lists.
\* ------------------------------------------------------------------------

\* The containers of the tree: those held within `fuel` steps of the root.
RECURSIVE Containers(_, _, _)
Containers(heap, id, fuel) ==
    IF heap[id].kind = "var" \/ fuel = 0 THEN {}
    ELSE {id} \cup UNION {Containers(heap, HeldAt(heap[id], key), fuel - 1) :
                            key \in HeldKeys(heap[id])}

C23_Stated ==
    \A id \in Containers(tHeap, tRoot, MaxDepth) :
        \A key \in HeldKeys(tHeap[id]) :
            LET kid == tHeap[HeldAt(tHeap[id], key)]
            IN  /\ kid.parent = id
                /\ kid.key = key
                /\ kid.name = NameUnder(tHeap, id, key)


\* ------------------------------------------------------------------------
\* C24: validation has no lasting effect: after validate returns, with or
\* without a trial value, on one scalar or on a section with its group
\* check, the value, the missing, strict and skip-checks flags and the
\* result of getValue() of every scalar are what they were before the call.
\* ------------------------------------------------------------------------
C24_Stated ==
    [][vCount' # vCount =>
        \A n \in Present(vKids) :
            vKids[n].kind = "Var" =>
                /\ vKids'[n].value = vKids[n].value
                /\ vKids'[n].missing = vKids[n].missing
                /\ vKids'[n].strict = vKids[n].strict
                /\ vKids'[n].skip = vKids[n].skip
                /\ VarGetValue(vKids'[n]) = VarGetValue(vKids[n])]_vars

\* ------------------------------------------------------------------------
\* C25: inherit_(keys, data) returns a new dictionary and leaves every
\* section of data unchanged, so that after reset_ with any order the
\* configuration holds what a Config built anew from the original input
\* with that order holds.
\* ------------------------------------------------------------------------

\* The data of a Config built from the input as it was given.
FreshConfig(input, order) ==
    LET made == Alloc(<< >>, input)
        done == ConfigInherit(made.heap, order, made.value.id)
    IN  TreeOf(done.heap, Ref(done.new))

C25_Stated ==
    iPc = "built" =>
        /\ TreeOf(iHeap, Ref(iInput)) = iOrig
        /\ TreeOf(iHeap, Ref(iData)) = FreshConfig(iOrig, iOrder)


OnceEach(seq) == \A i, j \in 1..Len(seq) : seq[i] = seq[j] => i = j

C27_Stated ==
    (cfgPc = "built" /\ cfgOrder.t = "list" /\ OnceEach(Requested))
        => OnceEach(cfgOrder.v)

\* ------------------------------------------------------------------------
\* C28: every check declared on a scalar contributes to its report: when
\* one of its declared checks fails, the reduced report of the scalar is
\* not empty, also when the same check function is declared more than once
\* with different arguments.
\* ------------------------------------------------------------------------

\* The scalars whose checks the validation ran.
Checked(var) ==
    var.kind = "Var" /\ ~var.skip /\ ~(var.missing /\ ~var.strict)

C28_Stated ==
    (vErrs.state = "done" /\ vIn.check = "none") =>
        \A n \in Present(vKids) :
            (Checked(vKids[n])
                /\ \E i \in 1..Len(vKids[n].checks) :
                      Oneof(vKids[n], vKids[n].checks[i].args) # Passed)
            => DOMAIN ErrorsReduce(vErrs.kids[n]) # {}

\* ------------------------------------------------------------------------
\* C29: interpolate gives the same result for every order in which the
\* distinct magics of the string are taken, and what it returns is a string
\* unless the string as given is exactly one magic.
\* ------------------------------------------------------------------------

\* What interpolate returns when set(matches) comes in `order`.
InterpolateIn(order) ==
    InterpolateMatches(Relativity(mIn.file, mIn.relativity), order,
                       FileOf(mIn), ConfigOf(mIn))

C29_Stated ==
    (mPc = "read" /\ mIn.by = "interpolate") =>
        /\ \A order \in Orders(FindMAGIC(Relativity(mIn.file,
                                                     mIn.relativity))) :
                InterpolateIn(order) = mRes
        /\ mRes.t \notin {"str", "raised"} => SingleMagic(mIn.file)

\* ------------------------------------------------------------------------
\* C30: after node[k] = v on a dict node, for a string key k and a scalar
\* v, k is a child (k in node) and node[k] reads v; and every key of the
\* map given at construction is a child of the constructed node; also for
\* keys that spell a method or an internal attribute of the class.
\* ------------------------------------------------------------------------
C30_Stated ==
    /\ yOp.op = "new" =>
        \A key \in DOMAIN yMap : DictContains(yNode, key) = BoolV(TRUE)
    /\ yOp.op = "set" =>
        /\ DictContains(yNode, yOp.key) = BoolV(TRUE)
        /\ DictGetitem(yNode, yOp.key) = yOp.value

====
